---- MODULE Spec2Model ----
(***************************************************************************)
(* The regression-forest engine (services/mlEngine: bootstrapSample,       *)
(* buildTree, predictTree, trainRandomForest, predictForest, calculateR2,  *)
(* calculateMAE), the entry points of services/dataService that call it    *)
(* (handleTrain, handlePredict, clearModelData, getStoredMetrics), the     *)
(* key-value store (dbService) they read and write, uploadToGitHub         *)
(* (services/github) and the state of App (the selected model type, the    *)
(* metrics shown, the pending loads).                                      *)
(*                                                                         *)
(* JavaScript numbers are binary floating-point numbers.  A finite number  *)
(* is <<m, e>>, the value m * 2^e with m odd (zero is <<0, 0>>); NaN,      *)
(* Infinity and -Infinity are three-element tuples and the value undefined *)
(* is <<>>.  Every +, -, * and / rounds its exact result to the nearest    *)
(* number of MantissaBits significant bits, ties to even, as IEEE 754 does *)
(* with 53 bits; the exponent range is unbounded (no overflow, no          *)
(* underflow).                                                             *)
(*                                                                         *)
(* Math.random is a nondeterministic choice: an operator whose code draws  *)
(* random numbers is the SET of the values the call can return.            *)
(***************************************************************************)
EXTENDS Integers, Sequences, FiniteSets, TLC

VARIABLES
    cfg,      \* the engine's constants for this run (see CodeConfig)
    pc,       \* position of the running operation
    data,     \* the dataset handed to the operation
    sample,   \* buildTree's input: bootstrapSample's result
    tree,     \* buildTree's result
    trees,    \* trainRandomForest's local array / predictForest's argument
    i,        \* trainRandomForest's outer loop counter
    yields,   \* number of setTimeout callbacks trainRandomForest awaited
    built,    \* trees pushed since the last awaited setTimeout
    row,      \* the row handed to predictTree / predictForest
    result,   \* what the operation returned or threw
    yTrue,    \* calculateR2 / calculateMAE arguments
    yPred,
    modelData, \* what dbService.getModel gives handlePredict
    returned,  \* the predictForest calls made so far: argument row and value returned
    store,     \* dbService: the stored dataset and the stored model of every model type
    ops,       \* the handleTrain / clearModelData calls: position and locals of each
    remote,    \* the file at the configured path of the GitHub repository
    upload,    \* the uploadToGitHub call: position and locals
    ui,        \* App's state: currentModel, metrics and the calls it awaits
    stack,     \* buildTree's calls not yet returned, the running one first
    ran        \* flips whenever code of trainRandomForest runs on from where it stood

vars ==
    <<cfg, pc, data, sample, tree, trees, i, yields, built, row, result, yTrue, yPred, modelData,
      returned, store, ops, remote, upload, ui, stack, ran>>

----------------------------------------------------------------------------
(* Numbers *)

\* A finite number is <<m, e>>, the value m * 2^e, with m odd (or <<0, 0>>), so
\* that equal numbers are equal tuples.
NaN == <<0, 0, 0>>
Infinity == <<1, 0, 0>>
NegInfinity == <<-1, 0, 0>>
Undefined == <<>>

IsFinite(x) == Len(x) = 2

\* undefined becomes NaN wherever it is used as a number
IsNaN(x) == x = NaN \/ x = Undefined

AbsInt(n) == IF n < 0 THEN -n ELSE n
SignInt(n) == IF n < 0 THEN -1 ELSE 1
Min2(a, b) == IF a < b THEN a ELSE b
Max2(a, b) == IF a > b THEN a ELSE b

\* The significand of a number: 53 bits in an IEEE double, fewer here.
MantissaBits == 11

\* a / d rounded to the nearest integer, ties to even
RoundHalfEven(a, d) ==
    LET q == a \div d
        r == a % d
    IN  IF 2 * r < d THEN q
        ELSE IF 2 * r > d THEN q + 1
        ELSE IF q % 2 = 0 THEN q ELSE q + 1

\* The number of bits of a >= 0
RECURSIVE Bits(_)
Bits(a) == IF a = 0 THEN 0 ELSE 1 + Bits(a \div 2)

\* m * 2^e with the factors of two moved from m to e
RECURSIVE Odd(_, _)
Odd(m, e) ==
    IF m = 0 THEN <<0, 0>>
    ELSE IF m % 2 = 0 THEN Odd(m \div 2, e + 1)
    ELSE <<m, e>>

\* The number the exact value s * a * 2^e (a >= 0) is stored as
Fl(s, a, e) ==
    LET k == Bits(a) - MantissaBits
    IN  IF k <= 0 THEN Odd(s * a, e)
        ELSE Odd(s * RoundHalfEven(a, 2^k), e + k)

\* The number the exact value s * (a / d) * 2^e (a, d > 0) is stored as: the
\* quotient is scaled to MantissaBits bits before it is rounded.
RECURSIVE FlQuotient(_, _, _, _)
FlQuotient(s, a, d, e) ==
    IF a \div d >= 2^MantissaBits THEN FlQuotient(s, a, 2 * d, e + 1)
    ELSE IF a \div d < 2^(MantissaBits - 1) THEN FlQuotient(s, 2 * a, d, e - 1)
    ELSE Odd(s * RoundHalfEven(a, d), e)

\* An integer, and a decimal literal or spreadsheet cell p / q, as numbers
Num(n) == Fl(SignInt(n), AbsInt(n), 0)

\* The position above the leading bit of a finite x # 0
Top(x) == Bits(AbsInt(x[1])) + x[2]

\* x + y: an operand below a quarter of the other's last place does not change
\* it; otherwise the two are added exactly at the lower exponent and rounded.
Add(x, y) ==
    IF ~(IsFinite(x) /\ IsFinite(y)) THEN NaN
    ELSE IF x[1] = 0 THEN y
    ELSE IF y[1] = 0 THEN x
    ELSE IF Top(x) - Top(y) > MantissaBits + 1 THEN x
    ELSE IF Top(y) - Top(x) > MantissaBits + 1 THEN y
    ELSE LET e == Min2(x[2], y[2])
             sum == x[1] * 2^(x[2] - e) + y[1] * 2^(y[2] - e)
         IN  Fl(SignInt(sum), AbsInt(sum), e)

Neg(x) == IF IsFinite(x) THEN <<-x[1], x[2]>> ELSE x
Sub(x, y) == Add(x, Neg(y))

Mul(x, y) ==
    IF ~(IsFinite(x) /\ IsFinite(y)) THEN NaN
    ELSE Fl(SignInt(x[1]) * SignInt(y[1]), AbsInt(x[1]) * AbsInt(y[1]), x[2] + y[2])

Div(x, y) ==
    IF ~(IsFinite(x) /\ IsFinite(y)) THEN NaN
    ELSE IF y[1] = 0
         THEN (IF x[1] = 0 THEN NaN ELSE IF x[1] > 0 THEN Infinity ELSE NegInfinity)
    ELSE IF x[1] = 0 THEN x
    ELSE FlQuotient(SignInt(x[1]) * SignInt(y[1]), AbsInt(x[1]), AbsInt(y[1]), x[2] - y[2])

Literal(p, q) == Div(Num(p), Num(q))

\* x < y for finite x and y: by sign, then by the leading bit, then by the
\* significands at the lower exponent
LtFinite(x, y) ==
    IF x[1] <= 0 /\ y[1] >= 0 THEN x # y
    ELSE IF x[1] >= 0 /\ y[1] <= 0 THEN FALSE
    ELSE IF x[2] = y[2] THEN x[1] < y[1]
    ELSE IF Top(x) # Top(y) THEN (IF x[1] > 0 THEN Top(x) < Top(y) ELSE Top(x) > Top(y))
    ELSE x[1] * 2^(x[2] - Min2(x[2], y[2])) < y[1] * 2^(y[2] - Min2(x[2], y[2]))

\* x < y, x <= y, x > y: false as soon as one side is NaN
Lt(x, y) ==
    /\ ~IsNaN(x)
    /\ ~IsNaN(y)
    /\ IF IsFinite(x) /\ IsFinite(y) THEN LtFinite(x, y)
       ELSE IF IsFinite(x) THEN y = Infinity
       ELSE IF IsFinite(y) THEN x = NegInfinity
       ELSE x = NegInfinity /\ y = Infinity
Leq(x, y) == ~IsNaN(x) /\ ~IsNaN(y) /\ (x = y \/ Lt(x, y))
Gt(x, y) == Lt(y, x)

AbsNum(x) == IF IsFinite(x) THEN <<AbsInt(x[1]), x[2]>> ELSE NaN

\* Math.floor and Math.ceil of n * (p / q) for integers n >= 0, p >= 0, q > 0
FloorMul(n, p, q) == (n * p) \div q
CeilMul(n, p, q) == (n * p + q - 1) \div q

Range(s) == {s[k] : k \in DOMAIN s}

\* values.reduce((a, b) => a + b, start) over s[lo..hi]: the additions are made
\* from left to right, each on the rounded sum so far.  The range is halved
\* only to keep the evaluation shallow for the 200 predictions of a forest.
RECURSIVE SumRange(_, _, _, _)
SumRange(s, lo, hi, start) ==
    IF lo > hi THEN start
    ELSE IF lo = hi THEN Add(start, s[lo])
    ELSE CHOOSE total \in
             {SumRange(s, (lo + hi) \div 2 + 1, hi, firstHalf) :
                  firstHalf \in {SumRange(s, lo, (lo + hi) \div 2, start)}} :
             TRUE
Sum(s) == SumRange(s, 1, Len(s), Num(0))

\* Mutant of Mean: the divisor is off by one.
Mean_DividesByLengthPlusOne(s) == Div(Sum(s), Num(Len(s) + 1))

Mean(s) == Div(Sum(s), Num(Len(s)))

----------------------------------------------------------------------------
(* The engine's constants (mlEngine) *)

N_ESTIMATORS == 200
MIN_SAMPLES_SPLIT == 5
MAX_DEPTH == 15
\* 0.7, as numerator and denominator
MAX_FEATURES_RATIO == <<7, 10>>
chunkSize == 10
\* "values.length > 20 ? ... .slice(0, 20)"
MaxTestValues == 20
\* Math.floor(n * 0.1), Math.floor(n * 0.9)
LowerPercentile == <<1, 10>>
UpperPercentile == <<9, 10>>

\* types.ts: the five feature columns and the target column
FEATURES == <<"days", "notes", "likes", "favs", "comments">>
TARGET == "target"

\* The constants as the code has them.
CodeConfig ==
    [features |-> FEATURES, nEstimators |-> N_ESTIMATORS, chunkSize |-> chunkSize,
     minSamplesSplit |-> MIN_SAMPLES_SPLIT, maxDepth |-> MAX_DEPTH]

----------------------------------------------------------------------------
(* Rows *)

\* Number(row[key]): a missing cell is undefined, and Number(undefined) is NaN
NumberOf(r, key) == IF key \in DOMAIN r THEN Num(r[key]) ELSE NaN

\* data.map(r => Number(r[TARGET]))
TargetsOf(d) == [k \in 1..Len(d) |-> NumberOf(d[k], TARGET)]

----------------------------------------------------------------------------
(* bootstrapSample *)

\* The values of Math.floor(Math.random() * n) over the n iterations, as 1-based
\* positions.
BootstrapDraws(n) == [1..n -> 1..n]

\* Mutant of bootstrapSample: the loop stops one iteration early.
bootstrapSample_StopsEarly(d, idx) == [k \in 1..(Len(d) - 1) |-> d[idx[k]]]

\* sample.push(data[idx]) for each drawn idx
bootstrapSample(d, idx) == [k \in 1..Len(d) |-> d[idx[k]]]

bootstrapSamples(d) == {bootstrapSample(d, idx) : idx \in BootstrapDraws(Len(d))}

----------------------------------------------------------------------------
(* calculateVariance *)

RECURSIVE SumSqFrom(_, _, _, _)
SumSqFrom(s, m, k, acc) ==
    IF k > Len(s) THEN acc
    ELSE SumSqFrom(s, m, k + 1, Add(acc, Mul(Sub(s[k], m), Sub(s[k], m))))

calculateVariance(values) ==
    IF Len(values) = 0 THEN Num(0)
    ELSE Div(SumSqFrom(values, Mean(values), 1, Num(0)), Num(Len(values)))

----------------------------------------------------------------------------
(* buildTree *)

\* Mutant of Leaf: the leaf keeps the split fields of the node it was tried as.
Leaf_KeepsSplitFields(v) == [isLeaf |-> TRUE, value |-> v, feature |-> "", threshold |-> Num(0)]

Leaf(v) == [isLeaf |-> TRUE, value |-> v]
Internal(f, th, l, r) == [isLeaf |-> FALSE, feature |-> f, threshold |-> th, left |-> l, right |-> r]

\* Sequences of m distinct elements of the sequence s: what shuffling s with a
\* random comparator and slicing to m elements can give.
ShuffleSlice(s, m) ==
    {[k \in 1..m |-> s[p[k]]] : p \in {q \in [1..m -> 1..Len(s)] : \A a, b \in 1..m : a # b => q[a] # q[b]}}

\* [...FEATURES].sort(() => 0.5 - Math.random()).slice(0, Math.ceil(FEATURES.length * MAX_FEATURES_RATIO))
FeatureSubsets(features) ==
    ShuffleSlice(features, CeilMul(Len(features), MAX_FEATURES_RATIO[1], MAX_FEATURES_RATIO[2]))

\* Array.from(new Set(data.map(d => Number(d[feature])))): distinct values in
\* order of first occurrence
RECURSIVE UniqueFrom(_, _, _)
UniqueFrom(s, k, acc) ==
    IF k > Len(s) THEN acc
    ELSE UniqueFrom(s, k + 1, IF s[k] \in Range(acc) THEN acc ELSE Append(acc, s[k]))

FeatureValues(d, feature) == UniqueFrom([k \in 1..Len(d) |-> NumberOf(d[k], feature)], 1, <<>>)

TestValues(values) ==
    IF Len(values) > MaxTestValues THEN ShuffleSlice(values, MaxTestValues) ELSE {values}

\* The (feature, threshold) pairs in the order the two nested loops visit them,
\* for one order of the features.
RECURSIVE Candidates(_, _, _)
Candidates(d, features, k) ==
    IF k > Len(features) THEN {<<>>}
    ELSE {[j \in 1..Len(tv) |-> <<features[k], tv[j]>>] \o rest :
            tv \in TestValues(FeatureValues(d, features[k])),
            rest \in Candidates(d, features, k + 1)}

NoSplit ==
    [feature |-> "", threshold |-> Num(0), varianceReduction |-> NegInfinity,
     left |-> <<>>, right |-> <<>>]

\* Mutant of TrySplit: rows are partitioned with "<" where predictTree routes
\* with "<=".
TrySplit_StrictPartition(d, best, feature, threshold, currentVariance) ==
    LET left == SelectSeq(d, LAMBDA r : Lt(NumberOf(r, feature), threshold))
        right == SelectSeq(d, LAMBDA r : ~Lt(NumberOf(r, feature), threshold))
    IN  IF Len(left) = 0 \/ Len(right) = 0 THEN best
        ELSE LET varLeft == calculateVariance(TargetsOf(left))
                 varRight == calculateVariance(TargetsOf(right))
                 reduction ==
                     Sub(currentVariance,
                         Add(Mul(Div(Num(Len(left)), Num(Len(d))), varLeft),
                             Mul(Div(Num(Len(right)), Num(Len(d))), varRight)))
             IN  IF Gt(reduction, best.varianceReduction)
                 THEN [feature |-> feature, threshold |-> threshold,
                       varianceReduction |-> reduction, left |-> left, right |-> right]
                 ELSE best

\* Mutant of TrySplit: a candidate that equals the best reduction so far
\* replaces it (">=" for ">").
TrySplit_KeepsLatestTie(d, best, feature, threshold, currentVariance) ==
    LET left == SelectSeq(d, LAMBDA r : Leq(NumberOf(r, feature), threshold))
        right == SelectSeq(d, LAMBDA r : ~Leq(NumberOf(r, feature), threshold))
    IN  IF Len(left) = 0 \/ Len(right) = 0 THEN best
        ELSE LET varLeft == calculateVariance(TargetsOf(left))
                 varRight == calculateVariance(TargetsOf(right))
                 reduction ==
                     Sub(currentVariance,
                         Add(Mul(Div(Num(Len(left)), Num(Len(d))), varLeft),
                             Mul(Div(Num(Len(right)), Num(Len(d))), varRight)))
             IN  IF Gt(reduction, best.varianceReduction) \/ reduction = best.varianceReduction
                 THEN [feature |-> feature, threshold |-> threshold,
                       varianceReduction |-> reduction, left |-> left, right |-> right]
                 ELSE best

\* Mutant of TrySplit: a candidate with an empty side is not skipped.
TrySplit_KeepsEmptySides(d, best, feature, threshold, currentVariance) ==
    LET left == SelectSeq(d, LAMBDA r : Leq(NumberOf(r, feature), threshold))
        right == SelectSeq(d, LAMBDA r : ~Leq(NumberOf(r, feature), threshold))
    IN  LET varLeft == calculateVariance(TargetsOf(left))
            varRight == calculateVariance(TargetsOf(right))
            reduction ==
                Sub(currentVariance,
                    Add(Mul(Div(Num(Len(left)), Num(Len(d))), varLeft),
                        Mul(Div(Num(Len(right)), Num(Len(d))), varRight)))
        IN  IF Gt(reduction, best.varianceReduction)
            THEN [feature |-> feature, threshold |-> threshold,
                  varianceReduction |-> reduction, left |-> left, right |-> right]
            ELSE best

\* The body of the inner loop for one threshold.
TrySplit(d, best, feature, threshold, currentVariance) ==
    LET left == SelectSeq(d, LAMBDA r : Leq(NumberOf(r, feature), threshold))
        right == SelectSeq(d, LAMBDA r : ~Leq(NumberOf(r, feature), threshold))
    IN  IF Len(left) = 0 \/ Len(right) = 0 THEN best
        ELSE LET varLeft == calculateVariance(TargetsOf(left))
                 varRight == calculateVariance(TargetsOf(right))
                 reduction ==
                     Sub(currentVariance,
                         Add(Mul(Div(Num(Len(left)), Num(Len(d))), varLeft),
                             Mul(Div(Num(Len(right)), Num(Len(d))), varRight)))
             IN  IF Gt(reduction, best.varianceReduction)
                 THEN [feature |-> feature, threshold |-> threshold,
                       varianceReduction |-> reduction, left |-> left, right |-> right]
                 ELSE best

RECURSIVE ScanSplits(_, _, _, _, _)
ScanSplits(d, cands, k, best, currentVariance) ==
    IF k > Len(cands) THEN best
    ELSE ScanSplits(d, cands, k + 1,
                    TrySplit(d, best, cands[k][1], cands[k][2], currentVariance),
                    currentVariance)

\* The values bestSplit can have after the loops.
BestSplits(c, d) ==
    LET currentVariance == calculateVariance(TargetsOf(d))
    IN  {ScanSplits(d, cands, 1, NoSplit, currentVariance) :
            cands \in UNION {Candidates(d, fs, 1) : fs \in FeatureSubsets(c.features)}}

\* Mutant of StopsAt: the depth test is ">" instead of ">=".
StopsAt_DepthOffByOne(c, d, depth) ==
    \/ depth > c.maxDepth
    \/ Len(d) < c.minSamplesSplit
    \/ Cardinality(Range(TargetsOf(d))) = 1

\* Stopping criteria
StopsAt(c, d, depth) ==
    \/ depth >= c.maxDepth
    \/ Len(d) < c.minSamplesSplit
    \/ Cardinality(Range(TargetsOf(d))) = 1

\* The trees buildTree(data, depth) can return.
RECURSIVE buildTree(_, _, _)
buildTree(c, d, depth) ==
    LET meanVal == Mean(TargetsOf(d))
    IN  IF StopsAt(c, d, depth) THEN {Leaf(meanVal)}
        ELSE UNION {IF b.varianceReduction = NegInfinity THEN {Leaf(meanVal)}
                    ELSE {Internal(b.feature, b.threshold, l, r) :
                            l \in buildTree(c, b.left, depth + 1),
                            r \in buildTree(c, b.right, depth + 1)} :
                    b \in BestSplits(c, d)}

----------------------------------------------------------------------------
(* predictTree *)

RECURSIVE predictTree(_, _)
predictTree(node, r) ==
    IF node.isLeaf THEN node.value
    ELSE IF Leq(NumberOf(r, node.feature), node.threshold)
         THEN predictTree(node.left, r)
         ELSE predictTree(node.right, r)

----------------------------------------------------------------------------
(* predictForest *)

\* predictions.sort((a, b) => a - b): Array.prototype.sort with a consistent
\* comparator gives the ascending arrangement, whose k-th element is the value
\* v with fewer than k elements below it and at least k elements not above it.
\* With NaN among the elements the comparator is inconsistent and the order is
\* implementation-defined; the forests of this model predict NaN only when
\* every tree does, and then every order is the same array.
Ranked(s, below, upTo) ==
    [k \in 1..Len(s) |-> CHOOSE v \in Range(s) : below[v] < k /\ k <= upTo[v]]

SortAscending(s) ==
    IF \E j \in 1..Len(s) : IsNaN(s[j]) THEN s
    ELSE CHOOSE sorted \in
             {Ranked(s, below, upTo) :
                  below \in {[v \in Range(s) |-> Cardinality({j \in 1..Len(s) : Lt(s[j], v)})]},
                  upTo \in {[v \in Range(s) |-> Cardinality({j \in 1..Len(s) : Leq(s[j], v)})]}} :
             TRUE

\* s[k] for a 0-based k: undefined outside the array
At(s, k) == IF k >= 0 /\ k < Len(s) THEN s[k + 1] ELSE Undefined


TreePredictions(forest, r) == [k \in 1..Len(forest) |-> predictTree(forest[k], r)]

\* Mutant of Quantiles: the two percentile indices are swapped.
Quantiles_SwappedBounds(predictions) ==
    LET n == Len(predictions)
        mean == Div(Sum(predictions), Num(n))
        idx10 == FloorMul(n, LowerPercentile[1], LowerPercentile[2])
        idx90 == FloorMul(n, UpperPercentile[1], UpperPercentile[2])
    IN  [mean |-> mean,
         lowerBound |-> At(predictions, Min2(n - 1, idx90)),
         upperBound |-> At(predictions, Max2(0, idx10))]

\* Mutant of Quantiles: the mean divides by n - 1.
Quantiles_MeanOverNMinusOne(predictions) ==
    LET n == Len(predictions)
        mean == Div(Sum(predictions), Num(n - 1))
        idx10 == FloorMul(n, LowerPercentile[1], LowerPercentile[2])
        idx90 == FloorMul(n, UpperPercentile[1], UpperPercentile[2])
    IN  [mean |-> mean,
         lowerBound |-> At(predictions, Max2(0, idx10)),
         upperBound |-> At(predictions, Min2(n - 1, idx90))]

Quantiles(predictions) ==
    LET n == Len(predictions)
        mean == Div(Sum(predictions), Num(n))
        idx10 == FloorMul(n, LowerPercentile[1], LowerPercentile[2])
        idx90 == FloorMul(n, UpperPercentile[1], UpperPercentile[2])
    IN  [mean |-> mean,
         lowerBound |-> At(predictions, Max2(0, idx10)),
         upperBound |-> At(predictions, Min2(n - 1, idx90))]

\* Each "const" is a bound variable, so that its value is computed once.
predictForest(forest, r) ==
    CHOOSE answer \in
        {Quantiles(predictions) :
             predictions \in {SortAscending(unsorted) :
                                  unsorted \in {TreePredictions(forest, r)}}} :
        TRUE

\* Mutant of ForestAfterPredict: the sort is made on the forest itself, by the
\* trees' predictions (a stable sort).
ForestAfterPredict_SortedInPlace(forest, r) ==
    CHOOSE sorted \in
        {[k \in 1..Len(forest) |-> forest[CHOOSE j \in 1..Len(forest) : rank[j] = k]] :
             rank \in {[j \in 1..Len(forest) |->
                           Cardinality({h \in 1..Len(forest) : Lt(p[h], p[j])})
                               + Cardinality({h \in 1..j : p[h] = p[j]})] :
                           p \in {TreePredictions(forest, r)}}} :
        TRUE

\* The forest after a call: "trees.map" builds a new array, and it is this
\* array that "sort" reorders; predictTree only reads nodes and row.
ForestAfterPredict(forest, r) == forest

----------------------------------------------------------------------------
(* calculateMAE, calculateR2 *)

RECURSIVE AbsErrFrom(_, _, _, _)
AbsErrFrom(yt, yp, k, acc) ==
    IF k > Len(yt) THEN acc
    ELSE AbsErrFrom(yt, yp, k + 1, Add(acc, AbsNum(Sub(yt[k], At(yp, k - 1)))))

calculateMAE(yt, yp) ==
    IF Len(yt) = 0 THEN Num(0)
    ELSE Div(AbsErrFrom(yt, yp, 1, Num(0)), Num(Len(yt)))

RECURSIVE SqErrFrom(_, _, _, _)
SqErrFrom(yt, yp, k, acc) ==
    IF k > Len(yt) THEN acc
    ELSE SqErrFrom(yt, yp, k + 1,
                   Add(acc, Mul(Sub(yt[k], At(yp, k - 1)), Sub(yt[k], At(yp, k - 1)))))

\* Mutant of calculateR2: the ratio is returned without "1 -".
calculateR2_RatioOnly(yt, yp) ==
    IF Len(yt) = 0 THEN Num(0)
    ELSE LET meanY == Mean(yt)
             ssTot == SumSqFrom(yt, meanY, 1, Num(0))
             ssRes == SqErrFrom(yt, yp, 1, Num(0))
         IN  IF ssTot = Num(0) THEN Num(0)
             ELSE Div(ssRes, ssTot)

calculateR2(yt, yp) ==
    IF Len(yt) = 0 THEN Num(0)
    ELSE LET meanY == Mean(yt)
             ssTot == SumSqFrom(yt, meanY, 1, Num(0))
             ssRes == SqErrFrom(yt, yp, 1, Num(0))
         IN  IF ssTot = Num(0) THEN Num(0)
             ELSE Sub(Num(1), Div(ssRes, ssTot))

----------------------------------------------------------------------------
(* Tree measures *)

RECURSIVE Depth(_)
Depth(node) ==
    IF node.isLeaf THEN 0
    ELSE 1 + (IF Depth(node.left) > Depth(node.right) THEN Depth(node.left) ELSE Depth(node.right))

RECURSIVE Nodes(_)
Nodes(node) == IF node.isLeaf THEN {node} ELSE {node} \cup Nodes(node.left) \cup Nodes(node.right)

\* The leaves from left to right
RECURSIVE LeafValues(_)
LeafValues(node) ==
    IF node.isLeaf THEN <<node.value>> ELSE LeafValues(node.left) \o LeafValues(node.right)

----------------------------------------------------------------------------
(* Inputs of the bounded model *)

MaxRows == 3
SmallMinSplit == 3
SmallMaxDepth == 2

SeqsUpTo(U, n) == UNION {[1..k -> U] : k \in 0..n}

\* The datasets of up to n rows drawn from a list of rows, each in the list's
\* order: the bootstrap samples of a dataset are those of its permutations.
NonDecreasing(m, u) == {ix \in [1..m -> 1..u] : \A k \in 1..(m - 1) : ix[k] <= ix[k + 1]}
DatasetsUpTo(rows, n) ==
    UNION {{[k \in 1..m |-> rows[ix[k]]] : ix \in NonDecreasing(m, Len(rows))} : m \in 0..n}

\* One feature "f": the rows of the 10/20/30 scenario and a row that repeats
\* a feature value with another target.
RowF(a, t) == [f |-> a, target |-> t]
RowsF == <<RowF(1, 10), RowF(2, 20), RowF(3, 30), RowF(1, 20)>>

\* Rows with a blank cell: a row without a target and a row without the
\* feature (validateColumns looks at the first row of a file only).
RowsB == <<RowF(1, 10), [f |-> 2], [target |-> 20]>>
Scenario == <<RowF(1, 10), RowF(2, 20), RowF(3, 30)>>

\* Four features, two of them constant: three of the four are drawn per node.
RowG(a, b, t) == [f |-> a, g |-> b, h |-> 0, k |-> 0, target |-> t]
RowsG == <<RowG(1, 1, 10), RowG(2, 1, 20), RowG(1, 2, 30), RowG(2, 2, 30)>>

\* The code's five columns.
RowC(a, t) == [days |-> a, notes |-> 1, likes |-> 0, favs |-> 0, comments |-> 0, target |-> t]
RowsC == <<RowC(1, 10), RowC(2, 20)>>

WithTree(features, minSamplesSplit, maxDepth) ==
    [CodeConfig EXCEPT !.features = features, !.minSamplesSplit = minSamplesSplit,
                       !.maxDepth = maxDepth]

ConfigsF == {WithTree(<<"f">>, ms, md) : ms \in {2, SmallMinSplit}, md \in {1, SmallMaxDepth}}
ConfigsB == {WithTree(<<"f">>, 2, SmallMaxDepth)}
ConfigsG == {WithTree(<<"f", "g", "h", "k">>, 2, SmallMaxDepth)}

\* (configuration, dataset) pairs a tree is built for
TreeRuns ==
    (ConfigsF \X DatasetsUpTo(RowsF, MaxRows))
        \cup (ConfigsB \X DatasetsUpTo(RowsB, MaxRows))
        \cup (ConfigsG \X DatasetsUpTo(RowsG, MaxRows))
        \cup ({CodeConfig} \X DatasetsUpTo(RowsC, MaxRows))

RowsOf(c) ==
    IF c.features = <<"f">> THEN Range(RowsF) \cup Range(RowsB)
    ELSE Range(IF c = CodeConfig THEN RowsC ELSE RowsG)

----------------------------------------------------------------------------
(* The key-value store and the calls that use it *)

\* ModelType; STORAGE_KEYS.DATA and STORAGE_KEYS.MODEL give every model type a
\* key of its own in the dataset store and in the model store.
ModelTypes == {"rf_model_online", "rf_model_recall"}

\* getModel gives undefined for a key never written and null after
\* clearModelData; both fail the "!modelData" test.
NoModel == [absent |-> TRUE]
IsAbsent(m) == "absent" \in DOMAIN m

\* A key of the dataset store never written reads as undefined, which
\* handleTrain replaces by []: both are the empty sequence here.  trainedOn is
\* not stored by the code: it remembers the dataset handed to
\* trainRandomForest by the call that wrote the stored model.
EmptyStore ==
    [data |-> [t \in ModelTypes |-> <<>>],
     model |-> [t \in ModelTypes |-> NoModel],
     trainedOn |-> [t \in ModelTypes |-> <<>>],
     untrained |-> [t \in ModelTypes |-> TRUE]]

\* The calls in flight at once: two that write the store (handleTrain,
\* clearModelData) and one that reads it (getStoredMetrics, handlePredict).
Writers == {"first", "second"}
Readers == {"third"}
Callers == Writers \cup Readers

NoMetrics == [absent |-> TRUE]

\* A caller that has no call in progress.  before, trainedOn and disturbed
\* are not locals of the code: before is the stored dataset when the call
\* began, trainedOn the argument it gave trainRandomForest, and disturbed
\* records that another call wrote the same model type's keys while this one
\* was in progress.
BlankOp ==
    [kind |-> "none", type |-> "", pc |-> "idle", file |-> <<>>, oldData |-> <<>>,
     mergedData |-> <<>>, trees |-> <<>>, metrics |-> NoMetrics, error |-> "",
     before |-> <<>>, trainedOn |-> <<>>, disturbed |-> FALSE, model |-> NoModel,
     results |-> <<>>]

NoOps == [o \in Callers |-> BlankOp]

\* No file at the path, no uploadToGitHub call, App not mounted.
NoRemote == [exists |-> FALSE]
NoUpload == [pc |-> "idle"]
NoUi == [mounted |-> FALSE]

----------------------------------------------------------------------------
(* One tree: bootstrapSample, buildTree(sample, 0), predictTree *)

Idle ==
    /\ sample = <<>> /\ tree = Undefined /\ trees = <<>> /\ i = 0 /\ yields = 0
    /\ built = 0 /\ row = Undefined /\ result = Undefined /\ yTrue = <<>> /\ yPred = <<>>
    /\ modelData = Undefined /\ returned = <<>> /\ store = EmptyStore /\ ops = NoOps
    /\ remote = NoRemote /\ upload = NoUpload /\ ui = NoUi /\ stack = <<>> /\ ran = FALSE

InitTree ==
    /\ \E run \in TreeRuns : cfg = run[1] /\ data = run[2]
    /\ pc = "start"
    /\ Idle

Bootstrap ==
    /\ pc = "start"
    /\ \E idx \in BootstrapDraws(Len(data)) : sample' = bootstrapSample(data, idx)
    /\ pc' = "sampled"
    /\ UNCHANGED <<cfg, data, tree, trees, i, yields, built, row, result, yTrue, yPred, modelData, returned, store, ops, remote, upload, ui, stack, ran>>

Build ==
    /\ pc = "sampled"
    /\ tree' \in buildTree(cfg, sample, 0)
    /\ pc' = "built"
    /\ UNCHANGED <<cfg, data, sample, trees, i, yields, built, row, result, yTrue, yPred, modelData, returned, store, ops, remote, upload, ui, stack, ran>>

PredictRow ==
    /\ pc = "built"
    /\ row' \in RowsOf(cfg)
    /\ result' = predictTree(tree, row')
    /\ pc' = "predicted"
    /\ UNCHANGED <<cfg, data, sample, tree, trees, i, yields, built, yTrue, yPred, modelData, returned, store, ops, remote, upload, ui, stack, ran>>

NextTree == Bootstrap \/ Build \/ PredictRow

SpecTree == InitTree /\ [][NextTree]_vars

----------------------------------------------------------------------------
(* trainRandomForest *)

SmallEstimators == 3
SmallChunk == 2

WithTrainer(c, nEstimators, chunk) == [c EXCEPT !.nEstimators = nEstimators, !.chunkSize = chunk]

\* Three rows with one target whose threefold is not a number of the model,
\* as 3 * 0.1 is not a binary64 number: the least odd integer above a third
\* of 2^MantissaBits.
ThirdsTarget == 2 * ((2 ^ MantissaBits \div 3 + 1) \div 2) + 1
Thirds == <<RowF(1, ThirdsTarget), RowF(2, ThirdsTarget), RowF(3, ThirdsTarget)>>

\* (configuration, dataset) pairs a forest is trained for: the code's constants
\* on datasets whose trees are determined, and small forests on datasets whose
\* trees depend on the draws.
TrainRuns ==
    ({CodeConfig} \X {<<>>, <<RowC(1, 10)>>, <<RowC(2, 20)>>, <<RowC(1, 10), RowC(2, 10)>>})
        \cup ({WithTrainer(WithTree(<<"f">>, 2, md), SmallEstimators, SmallChunk) : md \in 1..SmallMaxDepth}
                \X {<<>>, <<RowF(2, 20)>>, <<RowF(1, 10), RowF(2, 20)>>, Scenario, Thirds})

\* The trees "buildTree(bootstrapSample(data), 0)" can give.
TrainerTrees(c, d) == UNION {buildTree(c, s, 0) : s \in bootstrapSamples(d)}

InitTrain ==
    /\ \E run \in TrainRuns : cfg = run[1] /\ data = run[2]
    /\ pc = "start"
    /\ Idle

\* Mutant of Call: the first batch is built before any timer is awaited.
Call_BuildsBeforeAwait ==
    /\ pc = "start"
    /\ trees' = <<>>
    /\ i' = 0
    /\ IF 0 < cfg.nEstimators
       THEN pc' = "building" /\ UNCHANGED result
       ELSE pc' = "resolved" /\ result' = [trees |-> <<>>, oobPreds |-> <<>>]
    /\ UNCHANGED <<cfg, data, sample, tree, yields, built, row, yTrue, yPred, modelData, returned, store, ops, remote, upload, ui, stack, ran>>

\* The call, up to the first "await new Promise(resolve => setTimeout(resolve, 0))".
Call ==
    /\ pc = "start"
    /\ trees' = <<>>
    /\ i' = 0
    /\ IF 0 < cfg.nEstimators
       THEN pc' = "awaiting" /\ UNCHANGED result
       ELSE pc' = "resolved" /\ result' = [trees |-> <<>>, oobPreds |-> <<>>]
    /\ UNCHANGED <<cfg, data, sample, tree, yields, built, row, yTrue, yPred, modelData, returned, store, ops, remote, upload, ui, stack, ran>>

\* The host runs the timer callback.
Yield ==
    /\ pc = "awaiting"
    /\ yields' = yields + 1
    /\ built' = 0
    /\ pc' = "building"
    /\ UNCHANGED <<cfg, data, sample, tree, trees, i, row, result, yTrue, yPred, modelData, returned, store, ops, remote, upload, ui, stack, ran>>

\* Mutant of DataAfterBatch: the shuffles of buildTree are made on the
\* caller's array.
DataAfterBatch_ShuffledInPlace(d) == [k \in 1..Len(d) |-> d[Len(d) + 1 - k]]

\* The caller's array after a batch: bootstrapSample reads it by index into a
\* new array, buildTree maps and partitions its argument into new arrays,
\* and both sorts of buildTree are on arrays made there ([...FEATURES],
\* Array.from).
DataAfterBatch(d) == d

\* The inner loop, "i += chunkSize", and the outer loop's test: the next await
\* or the return.
BuildChunk ==
    /\ pc = "building"
    /\ LET k == Max2(0, Min2(cfg.chunkSize, cfg.nEstimators - i))
       IN  /\ \E ts \in [1..k -> TrainerTrees(cfg, data)] : trees' = trees \o ts
           /\ built' = k
    /\ data' = DataAfterBatch(data)
    /\ i' = i + cfg.chunkSize
    /\ IF i' < cfg.nEstimators
       THEN pc' = "awaiting" /\ UNCHANGED result
       ELSE pc' = "resolved" /\ result' = [trees |-> trees', oobPreds |-> <<>>]
    /\ UNCHANGED <<cfg, sample, tree, yields, row, yTrue, yPred, modelData, returned, store, ops, remote, upload, ui, stack, ran>>

Next == Call \/ Yield \/ BuildChunk

Spec == InitTrain /\ [][Next]_vars

----------------------------------------------------------------------------
(* handlePredict (dataService) *)

\* Math.round
Round(x) ==
    IF ~IsFinite(x) THEN NaN
    ELSE IF x[2] >= 0 THEN x
    ELSE IF -x[2] > MantissaBits + 1 THEN Num(0)
    ELSE Num((2 * x[1] + 2^(-x[2])) \div (2 * 2^(-x[2])))

\* validateColumns(row, isTraining): the names of the missing columns
MissingColumns_FeaturesOnly(c, r, isTraining) ==
    {f \in Range(c.features) : f \notin DOMAIN r}

MissingColumns(c, r, isTraining) ==
    {f \in Range(c.features) : f \notin DOMAIN r}
        \cup (IF isTraining /\ TARGET \notin DOMAIN r THEN {TARGET} ELSE {})

Thrown(e) == [kind |-> "error", error |-> e]
Returned(v) == [kind |-> "returned", value |-> v]

handlePredict(c, m, file) ==
    IF IsAbsent(m) THEN Thrown("UntrainedModel")
    ELSE IF Len(file) = 0 THEN Thrown("EmptyFile")
    ELSE IF MissingColumns(c, file[1], FALSE) # {} THEN Thrown("MissingColumns")
    ELSE Returned([k \in 1..Len(file) |->
                     CHOOSE out \in
                         {[row |-> file[k],
                           mean |-> Round(preds.mean),
                           lowerBound |-> Round(preds.lowerBound),
                           upperBound |-> Round(preds.upperBound)] :
                              preds \in {predictForest(m.trees, file[k])}} :
                         TRUE])

----------------------------------------------------------------------------
(* Prediction: predictForest on a forest and a row, handlePredict on a stored
   model and a file *)

MaxForest == 3

Stump == Internal("f", Num(1), Leaf(Num(0)), Leaf(Num(20)))
SmallTrees == {Leaf(Num(5)), Leaf(Num(10)), Leaf(Literal(15, 2)), Stump}

Uniform(n, v) == [k \in 1..n |-> Leaf(v)]
\* Predictions in five levels: of 200 in ascending order the 21st alone is 2
\* and the 181st alone is 4.
Level(k) ==
    IF k <= 20 THEN 1 ELSE IF k = 21 THEN 2 ELSE IF k <= 180 THEN 3 ELSE IF k = 181 THEN 4 ELSE 5
Rising(n) == [k \in 1..n |-> Leaf(Num(Level(k)))]
Falling(n) == [k \in 1..n |-> Leaf(Num(Level(n + 1 - k)))]

\* Forests of the size training gives
FullForests ==
    {Uniform(N_ESTIMATORS, Num(5)), Uniform(N_ESTIMATORS, Literal(7, 3)),
     Rising(N_ESTIMATORS), Falling(N_ESTIMATORS),
     [k \in 1..N_ESTIMATORS |-> IF k % 2 = 0 THEN Stump ELSE Leaf(Num(10))]}

\* What trainRandomForest resolves with for a dataset of no rows
NaNForest == Uniform(N_ESTIMATORS, NaN)

Forests == SeqsUpTo(SmallTrees, MaxForest) \cup FullForests \cup {NaNForest}

PredictRows == {[f |-> 1], [f |-> 2], [f |-> 3], [g |-> 1]}
MaxFileRows == 1
MaxCalls == 2
PredictFiles == SeqsUpTo(PredictRows, MaxFileRows)

\* A stored model is absent or holds the trees of one training.
InitPredict ==
    /\ cfg = WithTree(<<"f">>, MIN_SAMPLES_SPLIT, MAX_DEPTH)
    /\ trees \in Forests
    /\ modelData \in {NoModel} \cup (IF Len(trees) = cfg.nEstimators THEN {[trees |-> trees]} ELSE {})
    /\ pc = "start"
    /\ data = <<>> /\ sample = <<>> /\ tree = Undefined /\ i = 0 /\ yields = 0 /\ built = 0
    /\ row = Undefined /\ result = Undefined /\ yTrue = <<>> /\ yPred = <<>>
    /\ returned = <<>> /\ store = EmptyStore /\ ops = NoOps
    /\ remote = NoRemote /\ upload = NoUpload /\ ui = NoUi /\ stack = <<>> /\ ran = FALSE

\* predictForest is synchronous: a call runs from entry to return before any
\* other code does, so calls of several callers interleave call by call.
CallPredictForest ==
    /\ pc \in {"start", "predicted"}
    /\ Len(returned) < MaxCalls
    /\ row' \in PredictRows
    /\ result' = Returned(predictForest(trees, row'))
    /\ trees' = ForestAfterPredict(trees, row')
    /\ returned' = Append(returned, [row |-> row', value |-> result'.value])
    /\ pc' = "predicted"
    /\ UNCHANGED <<cfg, data, sample, tree, i, yields, built, yTrue, yPred, modelData, store, ops, remote, upload, ui, stack, ran>>

CallHandlePredict ==
    /\ pc = "start"
    /\ data' \in PredictFiles
    /\ result' = handlePredict(cfg, modelData, data')
    /\ pc' = "handled"
    /\ UNCHANGED <<cfg, sample, tree, trees, i, yields, built, row, yTrue, yPred, modelData, returned, store, ops, remote, upload, ui, stack, ran>>

NextPredict == CallPredictForest \/ CallHandlePredict

SpecPredict == InitPredict /\ [][NextPredict]_vars

----------------------------------------------------------------------------
(* Evaluation: calculateR2 and calculateMAE on two arrays *)

MaxY == 2
MaxYLen == 3

\* Zero, one, a larger integer and a decimal fraction that is not a binary one.
YValues == {Num(0), Num(1), Num(MaxY), Literal(1, 10)}

InitMetrics ==
    /\ \E n \in 0..MaxYLen : yTrue \in [1..n -> YValues] /\ yPred \in [1..n -> YValues]
    /\ pc = "start"
    /\ cfg = CodeConfig
    /\ data = <<>> /\ sample = <<>> /\ tree = Undefined /\ trees = <<>> /\ i = 0
    /\ yields = 0 /\ built = 0 /\ row = Undefined /\ result = Undefined
    /\ modelData = Undefined /\ returned = <<>> /\ store = EmptyStore /\ ops = NoOps
    /\ remote = NoRemote /\ upload = NoUpload /\ ui = NoUi /\ stack = <<>> /\ ran = FALSE

Evaluate ==
    /\ pc = "start"
    /\ result' = [r2 |-> calculateR2(yTrue, yPred), mae |-> calculateMAE(yTrue, yPred)]
    /\ pc' = "evaluated"
    /\ UNCHANGED <<cfg, data, sample, tree, trees, i, yields, built, row, yTrue, yPred, modelData, returned, store, ops, remote, upload, ui, stack, ran>>

NextMetrics == Evaluate

SpecMetrics == InitMetrics /\ [][NextMetrics]_vars

----------------------------------------------------------------------------
(* handleTrain and clearModelData on the store.  Each is an async function:
   it runs without interruption from one await to the next, and the calls of
   other callers run at its awaits. *)

StoreEstimators == 2

StoreConfig == WithTrainer(WithTree(<<"f">>, 2, SmallMaxDepth), StoreEstimators, SmallChunk)

\* The files read: empty, two valid ones, one whose first row lacks the
\* target column.
TrainFiles == {<<>>, <<RowF(1, 10)>>, <<RowF(2, 20), RowF(3, 30)>>, <<[f |-> 3]>>}

\* [...oldData, ...data]
MergeData_NewRowsFirst(oldData, d) == d \o oldData

MergeData(oldData, d) == oldData \o d

\* The index vectors bootstrapSample draws in these runs: every row once, the
\* last row only.
StoreDraws(n) == {[k \in 1..n |-> k], [k \in 1..n |-> n]}

\* The trees and the forests "await trainRandomForest(mergedData)" can
\* resolve with under those draws.
DrawnTrees(c, d) == UNION {buildTree(c, bootstrapSample(d, idx), 0) : idx \in StoreDraws(Len(d))}
TrainedForests(c, d) == [1..c.nEstimators -> DrawnTrees(c, d)]

\* Step 5 of handleTrain; lastUpdated, a reading of the clock, is left out.
EvaluateModel_FirstTreeOnly(forest, d) ==
    LET targets == TargetsOf(d)
        predictions == [k \in 1..Len(d) |-> predictForest(SubSeq(forest, 1, 1), d[k]).mean]
    IN  [r2 |-> calculateR2(targets, predictions),
         mae |-> calculateMAE(targets, predictions),
         sampleSize |-> Len(d)]

EvaluateModel(forest, d) ==
    LET targets == TargetsOf(d)
        predictions == [k \in 1..Len(d) |-> predictForest(forest, d[k]).mean]
    IN  [r2 |-> calculateR2(targets, predictions),
         mae |-> calculateMAE(targets, predictions),
         sampleSize |-> Len(d)]

ModelPayload(type, forest, metrics) == [type |-> type, trees |-> forest, metrics |-> metrics]

\* The positions at which a handleTrain call has read the store and not yet
\* returned, and those of a clearModelData call between its two writes.
InProgress == {"validated", "merged", "trained", "dataSaved", "clearing", "modelCleared"}

\* The calls after caller w wrote a key of model type t.
Disturb(os, w, t) ==
    [o \in Callers |->
        IF o # w /\ os[o].type = t /\ os[o].pc \in InProgress
        THEN [os[o] EXCEPT !.disturbed = TRUE] ELSE os[o]]

Outside == <<remote, upload, ui, stack, ran>>

Engine ==
    <<cfg, pc, data, sample, tree, trees, i, yields, built, row, result, yTrue, yPred, modelData,
      returned>>

\* The store of a fresh installation, and the store a handleTrain call on
\* StoredRows leaves behind.
StoredRows == <<RowF(1, 10)>>
StoresBefore ==
    {EmptyStore} \cup
    {[EmptyStore EXCEPT
        !.data[t] = StoredRows,
        !.model[t] = ModelPayload(t, forest, EvaluateModel(forest, StoredRows)),
        !.trainedOn[t] = StoredRows,
        !.untrained[t] = FALSE] :
            t \in {"rf_model_online"}, forest \in TrainedForests(StoreConfig, StoredRows)}

InitStore ==
    /\ cfg = StoreConfig
    /\ pc = "start"
    /\ data = <<>>
    /\ sample = <<>> /\ tree = Undefined /\ trees = <<>> /\ i = 0 /\ yields = 0
    /\ built = 0 /\ row = Undefined /\ result = Undefined /\ yTrue = <<>> /\ yPred = <<>>
    /\ modelData = Undefined /\ returned = <<>>
    /\ store \in StoresBefore
    /\ ops = NoOps
    /\ remote = NoRemote /\ upload = NoUpload /\ ui = NoUi /\ stack = <<>> /\ ran = FALSE

\* handleTrain up to "await dbService.getData": the file is read and validated.
StartTrainOf(o, types, files) ==
    /\ ops[o].pc = "idle"
    /\ \E t \in types, file \in files :
          LET begun == [BlankOp EXCEPT !.kind = "train", !.type = t, !.file = file,
                                       !.before = store.data[t]]
          IN  ops' = [ops EXCEPT ![o] =
                        IF Len(file) = 0
                        THEN [begun EXCEPT !.pc = "failed", !.error = "EmptyFile"]
                        ELSE IF MissingColumns(cfg, file[1], TRUE) # {}
                        THEN [begun EXCEPT !.pc = "failed", !.error = "MissingColumns"]
                        ELSE [begun EXCEPT !.pc = "validated"]]
    /\ UNCHANGED <<Engine, Outside, store>>

StartTrain(o) == StartTrainOf(o, ModelTypes, TrainFiles)

\* getData resolves; the merge; up to the 50 ms setTimeout.
GetData(o) ==
    /\ ops[o].pc = "validated"
    /\ ops' = [ops EXCEPT ![o].oldData = store.data[ops[o].type],
                          ![o].mergedData = MergeData(store.data[ops[o].type], ops[o].file),
                          ![o].pc = "merged"]
    /\ UNCHANGED <<Engine, Outside, store>>

\* trainRandomForest resolves; the evaluation; up to "await dbService.saveData".
\* trainRandomForest touches nothing but its argument and its locals, so the
\* steps of other calls at its awaits commute with it.
Train(o) ==
    /\ ops[o].pc = "merged"
    /\ \E forest \in TrainedForests(cfg, ops[o].mergedData) :
          ops' = [ops EXCEPT ![o].trees = forest,
                             ![o].trainedOn = ops[o].mergedData,
                             ![o].metrics = EvaluateModel(forest, ops[o].mergedData),
                             ![o].pc = "trained"]
    /\ UNCHANGED <<Engine, Outside, store>>

\* saveData resolves; up to "await dbService.saveModel".
SaveData(o) ==
    /\ ops[o].pc = "trained"
    /\ store' = [store EXCEPT !.data[ops[o].type] = ops[o].mergedData]
    /\ ops' = [Disturb(ops, o, ops[o].type) EXCEPT ![o].pc = "dataSaved"]
    /\ UNCHANGED <<Engine, Outside>>

\* saveModel resolves; handleTrain returns the metrics.
SaveModel(o) ==
    /\ ops[o].pc = "dataSaved"
    /\ store' = [store EXCEPT
                   !.model[ops[o].type] = ModelPayload(ops[o].type, ops[o].trees, ops[o].metrics),
                   !.trainedOn[ops[o].type] = ops[o].trainedOn,
                   !.untrained[ops[o].type] = FALSE]
    /\ ops' = [Disturb(ops, o, ops[o].type) EXCEPT ![o].pc = "done"]
    /\ UNCHANGED <<Engine, Outside>>

\* clearModelData up to "await dbService.saveModel(key, null)".
StartClearOf(o, types) ==
    /\ ops[o].pc = "idle"
    /\ \E t \in types :
          ops' = [ops EXCEPT ![o] = [BlankOp EXCEPT !.kind = "clear", !.type = t,
                                                    !.before = store.data[t],
                                                    !.pc = "clearing"]]
    /\ UNCHANGED <<Engine, Outside, store>>

StartClear(o) == StartClearOf(o, ModelTypes)

\* saveModel(key, null) resolves; up to "await dbService.saveData(key, [])".
ClearModel(o) ==
    /\ ops[o].pc = "clearing"
    /\ store' = [store EXCEPT !.model[ops[o].type] = NoModel,
                              !.trainedOn[ops[o].type] = <<>>]
    /\ ops' = [Disturb(ops, o, ops[o].type) EXCEPT ![o].pc = "modelCleared"]
    /\ UNCHANGED <<Engine, Outside>>

\* saveData(key, []) resolves; clearModelData returns.
ClearData(o) ==
    /\ ops[o].pc = "modelCleared"
    /\ store' = [store EXCEPT !.data[ops[o].type] = <<>>,
                              !.untrained[ops[o].type] = TRUE]
    /\ ops' = [Disturb(ops, o, ops[o].type) EXCEPT ![o].pc = "done"]
    /\ UNCHANGED <<Engine, Outside>>

\* performRequest rejects (request.onerror, tx.onerror, or initDB failing):
\* the awaiting call throws and the store keeps what it held.
Reject(o) ==
    /\ ops[o].pc \in {"validated", "trained", "dataSaved", "clearing", "modelCleared"}
    /\ ops' = [ops EXCEPT ![o].pc = "failed", ![o].error = "StorageError"]
    /\ UNCHANGED <<Engine, Outside, store>>

\* The files handlePredict reads: empty, a valid one, one whose first row
\* lacks the feature column, one whose second row lacks it.
StorePredictFiles == {<<>>, <<[f |-> 2]>>, <<[target |-> 20]>>, <<[f |-> 2], [target |-> 20]>>}

\* getStoredMetrics: getModel resolves and the call returns.  The request is
\* issued in the call's first synchronous stretch and IndexedDB serves the
\* requests on one object store in the order they were issued, so the read
\* sees the store as it is when the call begins.
GetStoredMetrics(o) ==
    /\ ops[o].pc = "idle"
    /\ \E t \in ModelTypes :
          ops' = [ops EXCEPT ![o] =
                    [BlankOp EXCEPT !.kind = "metrics", !.type = t, !.pc = "done",
                                    !.model = store.model[t],
                                    !.metrics = IF IsAbsent(store.model[t]) THEN NoMetrics
                                                ELSE store.model[t].metrics]]
    /\ UNCHANGED <<Engine, Outside, store>>

\* handlePredict up to the 500 ms setTimeout: getModel resolves, the file is
\* read and validated.
StartPredict(o) ==
    /\ ops[o].pc = "idle"
    /\ \E t \in ModelTypes, file \in StorePredictFiles :
          LET begun == [BlankOp EXCEPT !.kind = "predict", !.type = t, !.file = file,
                                       !.model = store.model[t]]
          IN  ops' = [ops EXCEPT ![o] =
                        IF IsAbsent(store.model[t])
                        THEN [begun EXCEPT !.pc = "failed", !.error = "UntrainedModel"]
                        ELSE IF Len(file) = 0
                        THEN [begun EXCEPT !.pc = "failed", !.error = "EmptyFile"]
                        ELSE IF MissingColumns(cfg, file[1], FALSE) # {}
                        THEN [begun EXCEPT !.pc = "failed", !.error = "MissingColumns"]
                        ELSE [begun EXCEPT !.pc = "predicting"]]
    /\ UNCHANGED <<Engine, Outside, store>>

\* The timer fires; every row of the file is predicted from the model read at
\* the start; handlePredict returns.
Predict(o) ==
    /\ ops[o].pc = "predicting"
    /\ ops' = [ops EXCEPT ![o].results = handlePredict(cfg, ops[o].model, ops[o].file).value,
                          ![o].pc = "done"]
    /\ UNCHANGED <<Engine, Outside, store>>

NextStore ==
    \E o \in Writers :
        \/ StartTrain(o) \/ GetData(o) \/ Train(o) \/ SaveData(o) \/ SaveModel(o)
        \/ StartClear(o) \/ ClearModel(o) \/ ClearData(o) \/ Reject(o)

SpecStore == InitStore /\ [][NextStore]_vars

\* The same calls on one model type with a reader beside them: the files are
\* empty, lacking the target in the first row, valid, and lacking the target
\* in the second row.
ReadTypes == {"rf_model_online"}
ReadTrainFiles == {<<>>, <<[f |-> 3]>>, <<RowF(2, 20)>>, <<RowF(2, 20), [f |-> 3]>>}

StartTrainRead(o) == StartTrainOf(o, ReadTypes, ReadTrainFiles)
StartClearRead(o) == StartClearOf(o, ReadTypes)

NextReads ==
    \/ \E o \in Writers :
          \/ StartTrainRead(o) \/ GetData(o) \/ Train(o) \/ SaveData(o) \/ SaveModel(o)
          \/ StartClearRead(o) \/ ClearModel(o) \/ ClearData(o) \/ Reject(o)
    \/ \E o \in Readers :
          \/ GetStoredMetrics(o) \/ StartPredict(o) \/ Predict(o)

SpecReads == InitStore /\ [][NextReads]_vars

----------------------------------------------------------------------------
(* uploadToGitHub.  A JSON object is the sequence of its members <<key,
   value>> in insertion order, keys distinct; a file's text is empty, not
   JSON, or the members of an object as written, where a key may repeat. *)

Keys(obj) == {obj[k][1] : k \in 1..Len(obj)}
ValueOf(obj, key) == obj[CHOOSE k \in 1..Len(obj) : obj[k][1] = key][2]

\* obj[key] = v on an ordinary object: an existing key keeps its place.
SetKey(obj, key, v) ==
    IF key \in Keys(obj)
    THEN [k \in 1..Len(obj) |-> IF obj[k][1] = key THEN <<key, v>> ELSE obj[k]]
    ELSE Append(obj, <<key, v>>)

\* { ...a, ...b }
RECURSIVE Spread(_, _)
Spread(a, b) == IF b = <<>> THEN a ELSE Spread(SetKey(a, b[1][1], b[1][2]), Tail(b))

EmptyText == [kind |-> "empty", members |-> <<>>]
InvalidText == [kind |-> "invalid", members |-> <<>>]
ObjectText(members) == [kind |-> "object", members |-> members]

\* JSON.parse of an object's text: of a repeated key the last value stands.
JSONparse(text) == Spread(<<>>, text.members)
\* JSON.stringify(obj, null, 2)
JSONstringify(obj) == ObjectText(obj)

\* The blob SHA GitHub reports for a file is a hash of its content.
ShaOf(text) == text
NoSha == [absent |-> TRUE]

FileAt(text, commits) == [exists |-> TRUE, text |-> text, commits |-> commits]
NoFile(commits) == [exists |-> FALSE, commits |-> commits]

\* Payloads stand for exported models.
RemoteKeys == {"rf_model_online", "rf_model_recall"}
RemoteTexts ==
    {EmptyText, InvalidText, ObjectText(<<>>),
     ObjectText(<<<<"rf_model_online", "old">>>>),
     ObjectText(<<<<"rf_model_recall", "old">>>>),
     ObjectText(<<<<"rf_model_recall", "old">>, <<"rf_model_online", "old">>>>),
     ObjectText(<<<<"rf_model_recall", "older">>, <<"rf_model_recall", "old">>>>)}

\* What getModelExportData hands over: { [modelType]: modelData }
NewContents == {<<<<k, "new">>>> : k \in RemoteKeys}

\* Commits to the path by other clients while the call runs.  rawOk in the
\* call's record is not a local of the code: it keeps rawRes.ok.
MaxCommits == 1

InitUpload ==
    /\ cfg = StoreConfig
    /\ pc = "start"
    /\ data = <<>>
    /\ sample = <<>> /\ tree = Undefined /\ trees = <<>> /\ i = 0 /\ yields = 0
    /\ built = 0 /\ row = Undefined /\ result = Undefined /\ yTrue = <<>> /\ yPred = <<>>
    /\ modelData = Undefined /\ returned = <<>>
    /\ store = EmptyStore /\ ops = NoOps /\ ui = NoUi /\ stack = <<>> /\ ran = FALSE
    /\ remote \in {NoFile(0)} \cup {FileAt(t, 0) : t \in RemoteTexts}
    /\ upload = NoUpload

\* uploadToGitHub up to the first "await fetch(url, { headers: metaHeaders })".
CallUpload ==
    /\ upload.pc = "idle"
    /\ \E c \in NewContents :
          upload' = [pc |-> "meta", newContentObj |-> c, sha |-> NoSha,
                     existingContent |-> <<>>, finalContent |-> <<>>, error |-> "",
                     rawOk |-> FALSE]
    /\ UNCHANGED <<Engine, store, ops, remote, ui, stack, ran>>

\* The metadata response arrives: 200 with the SHA, 404, or another status;
\* on 404 the merge and the PUT request follow at once.
GetMetadata ==
    /\ upload.pc = "meta"
    /\ \/ /\ remote.exists
          /\ upload' = [upload EXCEPT !.pc = "raw", !.sha = ShaOf(remote.text)]
       \/ /\ ~remote.exists
          /\ upload' = [upload EXCEPT !.pc = "put",
                                      !.finalContent = Spread(<<>>, upload.newContentObj)]
       \/ upload' = [upload EXCEPT !.pc = "failed", !.error = "GetMetadata"]
    /\ UNCHANGED <<Engine, store, ops, remote, ui, stack, ran>>

\* What lines 107-116 make of the raw response.
ExistingContent(ok, text) ==
    IF ok /\ text.kind = "object" THEN JSONparse(text) ELSE <<>>

\* The raw response arrives, ok with the file's text or not ok; the merge;
\* up to the PUT request.  A fetch that rejects fails the call.
GetRaw ==
    /\ upload.pc = "raw"
    /\ \/ \E ok \in (IF remote.exists THEN {TRUE, FALSE} ELSE {FALSE}) :
             \E existing \in {ExistingContent(ok, IF ok THEN remote.text ELSE EmptyText)} :
                upload' = [upload EXCEPT !.pc = "put",
                                         !.rawOk = ok,
                                         !.existingContent = existing,
                                         !.finalContent = Spread(existing, upload.newContentObj)]
       \/ upload' = [upload EXCEPT !.pc = "failed", !.error = "Fetch"]
    /\ UNCHANGED <<Engine, store, ops, remote, ui, stack, ran>>

\* GitHub takes a PUT that names the SHA of the file it replaces, or no SHA
\* when there is no file.
Accepts(file, sha) ==
    IF file.exists THEN sha = ShaOf(file.text) ELSE sha = NoSha

\* The PUT response arrives: ok and the file replaced, or not ok.
PutContent ==
    /\ upload.pc = "put"
    /\ \/ /\ Accepts(remote, upload.sha)
          /\ remote' = FileAt(JSONstringify(upload.finalContent), remote.commits)
          /\ upload' = [upload EXCEPT !.pc = "done"]
       \/ /\ upload' = [upload EXCEPT !.pc = "failed", !.error = "Put"]
          /\ UNCHANGED remote
    /\ UNCHANGED <<Engine, store, ops, ui, stack, ran>>

\* Another client commits to the path while the call is in flight.
OtherCommit ==
    /\ upload.pc \in {"meta", "raw", "put"}
    /\ remote.commits < MaxCommits
    /\ \E t \in RemoteTexts :
          /\ ~(remote.exists /\ remote.text = t)
          /\ remote' = FileAt(t, remote.commits + 1)
    /\ UNCHANGED <<Engine, store, ops, upload, ui, stack, ran>>

NextUpload == CallUpload \/ GetMetadata \/ GetRaw \/ PutContent \/ OtherCommit

SpecUpload == InitUpload /\ [][NextUpload]_vars

----------------------------------------------------------------------------
(* Properties of trainRandomForest (Spec) *)

\* C1: for every non-empty dataset trainRandomForest resolves with a forest of
\* exactly nEstimators trees (N_ESTIMATORS = 200 under the code's constants),
\* and every tree, while training and in the result, has depth <= maxDepth.
C1_ForestSizeAndDepth ==
    Len(data) >= 1 =>
        /\ \A k \in 1..Len(trees) : Depth(trees[k]) <= cfg.maxDepth
        /\ pc = "resolved" =>
              /\ Len(result.trees) = cfg.nEstimators
              /\ cfg = CodeConfig => Len(result.trees) = N_ESTIMATORS
              /\ \A k \in 1..Len(result.trees) : Depth(result.trees[k]) <= cfg.maxDepth

\* A resolved training of a non-empty dataset with a tree as deep as maxDepth allows.
C1_Witness ==
    /\ pc = "resolved"
    /\ Len(data) >= 1
    /\ \E k \in 1..Len(result.trees) : Depth(result.trees[k]) = cfg.maxDepth

\* C3: training invoked with a dataset of zero rows fails with an error and
\* produces no forest: it never resolves with trees built from zero rows.
C3_EmptyDatasetNeverTrains ==
    Len(data) = 0 => (pc # "resolved" /\ trees = <<>>)

\* C7: training a single-sample dataset yields a forest whose every tree is a
\* single Leaf whose value is that sample's target value.
C7_SingleSampleForest ==
    Len(data) = 1 =>
        /\ \A k \in 1..Len(trees) : trees[k] = Leaf(Num(data[1][TARGET]))
        /\ pc = "resolved" =>
              /\ Len(result.trees) = cfg.nEstimators
              /\ \A k \in 1..Len(result.trees) : result.trees[k] = Leaf(Num(data[1][TARGET]))

\* The 200 trees of a training of one sample under the code's constants.
C7_Witness ==
    /\ pc = "resolved"
    /\ cfg = CodeConfig
    /\ Len(data) = 1
    /\ Len(result.trees) = N_ESTIMATORS

----------------------------------------------------------------------------
(* Properties of bootstrapSample, buildTree and predictTree (SpecTree) *)

LeafFields == {"isLeaf", "value"}
InternalFields == {"isLeaf", "feature", "threshold", "left", "right"}

\* C5: every node of every tree buildTree returns is exactly one of two
\* variants: a Leaf with a defined value and no feature, threshold or
\* children, or an Internal node with a feature, a threshold, both children
\* and no value.
C5_NodeVariants ==
    pc \in {"built", "predicted"} =>
        \A node \in Nodes(tree) :
            IF node.isLeaf
            THEN DOMAIN node = LeafFields /\ node.value # Undefined
            ELSE /\ DOMAIN node = InternalFields
                 /\ node.feature \in Range(cfg.features)
                 /\ IsFinite(node.threshold)

\* A built tree with an Internal node below its Internal root.
C5_Witness ==
    /\ pc = "built"
    /\ ~tree.isLeaf
    /\ (~tree.left.isLeaf \/ ~tree.right.isLeaf)

\* C6: for an input of size >= 1 bootstrapSample returns a dataset of the
\* input's length whose every element is an element of the input, and the
\* input is the same after the call.
C6_BootstrapSample ==
    [][(pc = "start" /\ pc' = "sampled" /\ Len(data) >= 1) =>
          /\ Len(sample') = Len(data)
          /\ \A k \in 1..Len(sample') : sample'[k] \in Range(data)
          /\ data' = data]_vars

\* A sample that repeats one row of an input of distinct rows.
C6_Witness ==
    /\ pc = "sampled"
    /\ Len(data) >= 2
    /\ data[1] # data[2]
    /\ sample[1] = sample[2]

ScenarioCase(minDepth) ==
    /\ pc = "predicted"
    /\ sample = Scenario
    /\ cfg.features = <<"f">>
    /\ cfg.minSamplesSplit = 2
    /\ cfg.maxDepth >= minDepth
    /\ row \in Range(Scenario)

ScenarioOutcome ==
    /\ LeafValues(tree) = <<Num(10), Num(20), Num(30)>>
    /\ result = Num(row[TARGET])

\* C8 (as stated): for the dataset [{f:1,t:10},{f:2,t:20},{f:3,t:30}] with
\* minSamplesSplit = 2 and any maxDepth >= 1, buildTree ends with three
\* single-value leaves and the tree predicts 10, 20, 30 for f = 1, 2, 3.
C8_ScenarioAnyDepth == ScenarioCase(1) => ScenarioOutcome

\* C8 (amended): the same for any maxDepth >= 2; the third leaf is two splits
\* below the root.
C8_ScenarioDepthTwo == ScenarioCase(2) => ScenarioOutcome

\* The scenario's tree predicting 30 for the row f = 3.
C8_Witness == ScenarioCase(2) /\ row.f = 3 /\ result = Num(30)

----------------------------------------------------------------------------
(* Properties of predictForest and handlePredict (SpecPredict) *)

\* The predictions of the forest's trees for the row, as a set
PredictionSet == {predictTree(trees[k], row) : k \in 1..Len(trees)}

\* C2: for every forest (at least one tree, numeric leaves) and every row,
\* predictForest returns lowerBound <= upperBound and a mean within
\* [min(treePredictions), max(treePredictions)].
C2_BoundsOrdered ==
    (pc = "predicted" /\ Len(trees) >= 1) =>
        \A predictions \in {PredictionSet} :
            (\A p \in predictions : IsFinite(p)) =>
                /\ Leq(result.value.lowerBound, result.value.upperBound)
                /\ \E lo, hi \in predictions :
                      /\ \A p \in predictions : Leq(lo, p) /\ Leq(p, hi)
                      /\ Leq(lo, result.value.mean)
                      /\ Leq(result.value.mean, hi)

\* C4: prediction fails with the untrained-model error whenever the forest is
\* empty (zero trees) or absent, and returns no prediction then.
C4_UntrainedModelFails ==
    /\ (pc = "predicted" /\ Len(trees) = 0) => result = Thrown("UntrainedModel")
    /\ (pc = "handled" /\ IsAbsent(modelData)) => result = Thrown("UntrainedModel")

ExactlySummable(v, n) == v[2] >= 0 /\ n * AbsInt(v[1]) * 2^v[2] < 2^MantissaBits

----------------------------------------------------------------------------
(* Properties of calculateR2 and calculateMAE (SpecMetrics) *)

C11_DegenerateTarget ==
    (pc = "evaluated" /\ Len(yTrue) >= 1 /\ \A a, b \in 1..Len(yTrue) : yTrue[a] = yTrue[b]) =>
        result.r2 = Num(0)


----------------------------------------------------------------------------
(* Properties of handleTrain and the store (SpecStore) *)

MetricsFrom(forest, d) ==
    LET predictions == [k \in 1..Len(d) |-> Quantiles(TreePredictions(forest, d[k])).mean]
    IN  [r2 |-> calculateR2(TargetsOf(d), predictions),
         mae |-> calculateMAE(TargetsOf(d), predictions),
         sampleSize |-> Len(d)]

\* C14: in every reachable state the stored model of each model type is
\* absent, or a payload of that type whose metrics are the ones computed from
\* exactly its own forest (on the dataset that forest was trained on): no
\* state pairs the trees of one run with the metrics of another.
C14_ModelPairsForestWithItsMetrics ==
    \A t \in ModelTypes :
        \/ IsAbsent(store.model[t])
        \/ /\ store.model[t].type = t
           /\ Len(store.model[t].trees) = cfg.nEstimators
           /\ store.model[t].metrics = MetricsFrom(store.model[t].trees, store.trainedOn[t])

\* A retrain replaced a stored model by a forest of trees that differ, and
\* the stored payload is that run's forest with that run's metrics.
C14_Witness ==
    \E o \in Callers :
        /\ ops[o].kind = "train" /\ ops[o].pc = "done" /\ ~ops[o].disturbed
        /\ Len(ops[o].before) >= 1
        /\ ~IsAbsent(store.model[ops[o].type])
        /\ store.model[ops[o].type].trees = ops[o].trees
        /\ store.model[ops[o].type].metrics = ops[o].metrics
        /\ ops[o].trees[1] # ops[o].trees[2]
----------------------------------------------------------------------------
(* Properties of the nodes buildTree makes (SpecTree) *)

\* The partition buildTree makes of d for a candidate.
LeftOf(d, feature, threshold) == SelectSeq(d, LAMBDA r : Leq(NumberOf(r, feature), threshold))
RightOf(d, feature, threshold) == SelectSeq(d, LAMBDA r : ~Leq(NumberOf(r, feature), threshold))

\* Some candidate over the features fs yields two non-empty sides of d.
TwoSided(d, fs) ==
    \E j \in 1..Len(fs), k \in 1..Len(d) :
        LET threshold == NumberOf(d[k], fs[j])
        IN  Len(LeftOf(d, fs[j], threshold)) > 0 /\ Len(RightOf(d, fs[j], threshold)) > 0

\* The three tests made before the candidates are tried.
StopsEarly(c, d, depth) ==
    \/ depth >= c.maxDepth
    \/ Len(d) < c.minSamplesSplit
    \/ \A a, b \in 1..Len(d) : NumberOf(d[a], TARGET) = NumberOf(d[b], TARGET)

\* node is what the claim says buildTree(d, depth) returns, and so are the
\* nodes below it: a Leaf holding the mean of the targets when one of the
\* four conditions holds (the fourth for a draw of the features), an Internal
\* node whose candidate yields two non-empty sides when none holds.
RECURSIVE BuiltAsClaimed(_, _, _, _)
BuiltAsClaimed(c, node, d, depth) ==
    IF node.isLeaf
    THEN /\ \/ StopsEarly(c, d, depth)
            \/ \E fs \in FeatureSubsets(c.features) : ~TwoSided(d, fs)
         /\ node.value = Div(Sum(TargetsOf(d)), Num(Len(d)))
    ELSE /\ ~StopsEarly(c, d, depth)
         /\ TwoSided(d, <<node.feature>>)
         /\ BuiltAsClaimed(c, node.left, LeftOf(d, node.feature, node.threshold), depth + 1)
         /\ BuiltAsClaimed(c, node.right, RightOf(d, node.feature, node.threshold), depth + 1)

\* C15: buildTree(data, depth) returns a Leaf exactly when depth >= maxDepth,
\* or |data| < minSamplesSplit, or all targets of data are identical, or no
\* candidate yields two non-empty sides; the leaf's value is then the mean of
\* the targets of data; otherwise it returns an Internal node.  Stated for
\* the tree built from the sample and for every node below its root.
C15_LeafExactlyWhenStopped ==
    pc \in {"built", "predicted"} => BuiltAsClaimed(cfg, tree, sample, 0)
\* The rows of d the claim gives each child of a node.
AtMost(d, feature, threshold) == SelectSeq(d, LAMBDA r : Leq(NumberOf(r, feature), threshold))
Above(d, feature, threshold) == SelectSeq(d, LAMBDA r : Gt(NumberOf(r, feature), threshold))

\* node, built from d, and every node below it are split as the claim says:
\* the children are trees buildTree gives on the rows at most and above the
\* threshold, both are non-empty and no row of d is left out.
RECURSIVE SplitAsClaimed(_, _, _, _)
SplitAsClaimed(c, node, d, depth) ==
    node.isLeaf \/
        LET l == AtMost(d, node.feature, node.threshold)
            r == Above(d, node.feature, node.threshold)
        IN  /\ Len(l) > 0 /\ Len(r) > 0
            /\ Len(l) + Len(r) = Len(d)
            /\ node.left \in buildTree(c, l, depth + 1)
            /\ node.right \in buildTree(c, r, depth + 1)
            /\ SplitAsClaimed(c, node.left, l, depth + 1)
            /\ SplitAsClaimed(c, node.right, r, depth + 1)

\* The leaves of node whose training subset, by the claim's partition of d,
\* contains the row r.
RECURSIVE LeavesHolding(_, _, _)
LeavesHolding(node, d, r) ==
    IF r \notin Range(d) THEN {}
    ELSE IF node.isLeaf THEN {node}
    ELSE LeavesHolding(node.left, AtMost(d, node.feature, node.threshold), r)
            \cup LeavesHolding(node.right, Above(d, node.feature, node.threshold), r)

\* C16: at every Internal node the left child is built from exactly the rows
\* of the node's data with feature value <= threshold and the right child
\* from exactly those with feature value > threshold, both non-empty; and
\* predictTree gives every row of the data the tree was built from the value
\* of the one leaf whose training subset contains that row.
C16_PartitionAndRouting ==
    /\ pc \in {"built", "predicted"} => SplitAsClaimed(cfg, tree, sample, 0)
    /\ (pc = "predicted" /\ row \in Range(sample)) =>
          LeavesHolding(tree, sample, row) = {Leaf(result)}
\* The candidate sequences the loops of buildTree can run through on d.
CandidateRuns(c, d) == UNION {Candidates(d, fs, 1) : fs \in FeatureSubsets(c.features)}

\* A candidate is valid when both of its sides are non-empty.
ValidCandidate(d, cand) == Len(LeftOf(d, cand[1], cand[2])) > 0 /\ Len(RightOf(d, cand[1], cand[2])) > 0

\* Parent population variance minus the size-weighted population variances
\* of the two sides.
ReductionOf(d, cand) ==
    LET l == LeftOf(d, cand[1], cand[2])
        r == RightOf(d, cand[1], cand[2])
    IN  Sub(calculateVariance(TargetsOf(d)),
            Add(Mul(Div(Num(Len(l)), Num(Len(d))), calculateVariance(TargetsOf(l))),
                Mul(Div(Num(Len(r)), Num(Len(d))), calculateVariance(TargetsOf(r)))))

\* For each candidate of a run whether it is valid, and its reduction.
Evaluated(d, cands) ==
    [k \in 1..Len(cands) |->
        [valid |-> ValidCandidate(d, cands[k]),
         reduction |-> IF ValidCandidate(d, cands[k]) THEN ReductionOf(d, cands[k]) ELSE NaN]]

\* Candidate j is valid, no valid candidate of the run has a greater
\* reduction and no earlier one has the same.
FirstGreatest(ev, j) ==
    /\ ev[j].valid
    /\ \A k \in 1..Len(ev) :
          ev[k].valid =>
              /\ ~Gt(ev[k].reduction, ev[j].reduction)
              /\ k < j => ev[k].reduction # ev[j].reduction

\* The split of node, built from d, and of every Internal node below it is
\* the first greatest candidate of some run of the loops.
RECURSIVE ChosenAsClaimed(_, _, _)
ChosenAsClaimed(c, node, d) ==
    node.isLeaf \/
        /\ \E cands \in CandidateRuns(c, d) : \E ev \in {Evaluated(d, cands)} :
              \E j \in 1..Len(cands) :
                  cands[j] = <<node.feature, node.threshold>> /\ FirstGreatest(ev, j)
        /\ ChosenAsClaimed(c, node.left, LeftOf(d, node.feature, node.threshold))
        /\ ChosenAsClaimed(c, node.right, RightOf(d, node.feature, node.threshold))

\* C17: the split chosen at a node is the valid candidate with the greatest
\* variance reduction among the candidates evaluated at that node, the first
\* one encountered among those of equal reduction.  Stated for the root of
\* the tree built from the sample and for every Internal node below it.
C17_FirstGreatestReduction ==
    pc = "built" => ChosenAsClaimed(cfg, tree, sample)

\* The 10/20/30 scenario: thresholds 1 and 2 tie, and the tree splits at 1,
\* the first of the two.
C17_Witness ==
    /\ pc = "built" /\ sample = Scenario /\ ~tree.isLeaf
    /\ tree.threshold = Num(1)
    /\ ReductionOf(sample, <<"f", Num(1)>>) = ReductionOf(sample, <<"f", Num(2)>>)
----------------------------------------------------------------------------
(* Properties of predictForest's bounds (SpecPredict) *)

\* v stands at the 0-based index k of the ascending order of p: fewer than
\* k + 1 elements are below v and more than k are at most v.
StandsAt(p, v, k) ==
    /\ Cardinality({j \in 1..Len(p) : Lt(p[j], v)}) <= k
    /\ k < Cardinality({j \in 1..Len(p) : Leq(p[j], v)})

\* C18: for a forest of n >= 1 trees lowerBound is the element of the
\* ascending-sorted predictions at the 0-based index floor(n * 0.1) and
\* upperBound the one at floor(n * 0.9), each index clamped to [0, n - 1]:
\* the indices are always valid, and they are 20 and 180 for n = 200.  Where
\* a prediction is NaN there is no ascending order, and the bounds are then
\* only required to be elements of the predictions.
C18_BoundsAtPercentileIndices ==
    (pc = "predicted" /\ Len(trees) >= 1 /\ result.kind = "returned") =>
        \A p \in {TreePredictions(trees, row)} :
            LET n == Len(p)
                idx10 == Max2(0, n \div 10)
                idx90 == Min2(n - 1, (9 * n) \div 10)
            IN  /\ idx10 \in 0..(n - 1) /\ idx90 \in 0..(n - 1)
                /\ n = N_ESTIMATORS => (idx10 = 20 /\ idx90 = 180)
                /\ IF \E j \in 1..n : IsNaN(p[j])
                   THEN result.value.lowerBound \in Range(p) /\ result.value.upperBound \in Range(p)
                   ELSE /\ StandsAt(p, result.value.lowerBound, idx10)
                        /\ StandsAt(p, result.value.upperBound, idx90)

\* A forest of 200 leaves in descending order whose 21st smallest and 181st
\* smallest values differ from their neighbours: the bounds are those two.
C18_Witness ==
    /\ pc = "predicted" /\ trees = Falling(N_ESTIMATORS) /\ result.kind = "returned"
    /\ result.value.lowerBound = Num(2)
    /\ result.value.upperBound = Num(4)
----------------------------------------------------------------------------
(* Properties of the training loop (Spec) *)

\* C19: a timer is awaited before every batch, the first included; at most
\* chunkSize (10) trees are built between two consecutive awaits; trees are
\* appended in the order they are built; and a run that resolves has awaited
\* once per batch, 20 times for the 200 trees of the code's constants.
C19_YieldBeforeEveryBatch ==
    [][/\ Len(trees') > Len(trees) =>
             /\ pc = "building" /\ yields >= 1 /\ built = 0
             /\ Len(trees') - Len(trees) <= cfg.chunkSize
             /\ SubSeq(trees', 1, Len(trees)) = trees
       /\ Len(trees') <= yields' * cfg.chunkSize
       /\ (pc' = "resolved" /\ pc # "resolved") =>
             /\ yields' * cfg.chunkSize >= cfg.nEstimators
             /\ (yields' - 1) * cfg.chunkSize < cfg.nEstimators
             /\ (cfg.nEstimators = 200 /\ cfg.chunkSize = 10) => yields' = 20]_vars

\* A run with the code's constants on a non-empty dataset that resolved with
\* 200 trees after 20 awaits.
C19_Witness ==
    /\ pc = "resolved" /\ cfg = CodeConfig /\ Len(data) >= 1
    /\ Len(result.trees) = 200 /\ yields = 20
ReadsUntrained(o) ==
    /\ ops[o].pc = "idle"
    /\ ops'[o].kind \in {"metrics", "predict"}
    /\ store.untrained[ops'[o].type]

\* C21: after clearModelData(t) completes and until the next successful
\* handleTrain(t), and likewise when t was never trained, getStoredMetrics(t)
\* returns null and handlePredict(t) rejects with the untrained-model error
\* and produces no predictions.
C21_ClearedModelReadsAsUntrained ==
    [][\A o \in Callers :
          ReadsUntrained(o) =>
              /\ ops'[o].kind = "metrics" => IsAbsent(ops'[o].metrics)
              /\ ops'[o].kind = "predict" =>
                    /\ ops'[o].pc = "failed"
                    /\ ops'[o].error = "UntrainedModel"
                    /\ ops'[o].results = <<>>]_vars

\* The same for the calls that begin when no other call on the model type is
\* between its storage requests.
C21_ClearedModelReadsAsUntrainedAlone ==
    [][\A o \in Callers :
          (/\ ReadsUntrained(o)
           /\ \A w \in Callers : ~(ops[w].type = ops'[o].type /\ ops[w].pc \in InProgress)
           /\ \A w \in Callers : ~ops[w].disturbed) =>
              /\ ops'[o].kind = "metrics" => IsAbsent(ops'[o].metrics)
              /\ ops'[o].kind = "predict" =>
                    /\ ops'[o].pc = "failed"
                    /\ ops'[o].error = "UntrainedModel"
                    /\ ops'[o].results = <<>>]_vars

\* A successful upload over a file that holds a JSON object: the response to
\* the PUT is ok and the file it replaces parses to an object.
UploadsOver ==
    /\ upload.pc = "put" /\ upload'.pc = "done"
    /\ remote.exists /\ remote.text.kind = "object"

\* C22: a successful uploadToGitHub over a remote file holding a JSON object
\* keeps every top-level key of the existing content that the new content
\* lacks, with its value, and gives every key of the new content its new
\* value.
C22_UploadMergesIntoRemote ==
    [][UploadsOver =>
          \E before \in {JSONparse(remote.text)}, after \in {JSONparse(remote'.text)} :
             /\ \A k \in Keys(before) \ Keys(upload.newContentObj) :
                   k \in Keys(after) /\ ValueOf(after, k) = ValueOf(before, k)
             /\ \A k \in Keys(upload.newContentObj) :
                   k \in Keys(after) /\ ValueOf(after, k) = ValueOf(upload.newContentObj, k)]_vars

\* The same for the calls whose raw request was answered ok.
C22_UploadMergesWhenRawOk ==
    [][(UploadsOver /\ upload.rawOk) =>
          \E before \in {JSONparse(remote.text)}, after \in {JSONparse(remote'.text)} :
             /\ \A k \in Keys(before) \ Keys(upload.newContentObj) :
                   k \in Keys(after) /\ ValueOf(after, k) = ValueOf(before, k)
             /\ \A k \in Keys(upload.newContentObj) :
                   k \in Keys(after) /\ ValueOf(after, k) = ValueOf(upload.newContentObj, k)]_vars

\* Every feature, and with isTraining the target, is populated in every row.
Populated(rows, isTraining) ==
    \A k \in 1..Len(rows) : MissingColumns(cfg, rows[k], isTraining) = {}

\* C23: every row handleTrain hands to trainRandomForest has every feature
\* and the target populated, and every row handlePredict hands to
\* predictForest has every feature populated: a file with a row missing a
\* required field is rejected before training or prediction.
C23_OnlyPopulatedRowsReachEngine ==
    \A o \in Callers :
        /\ ops[o].kind = "train" => Populated(ops[o].trainedOn, TRUE)
        /\ (ops[o].kind = "predict" /\ ops[o].pc \in {"predicting", "done"}) =>
              Populated(ops[o].file, FALSE)

\* The same for the files whose first row is the only row.
C23_OnlyPopulatedFirstRowsReachEngine ==
    \A o \in Callers :
        /\ (ops[o].kind = "train" /\ ops[o].trainedOn # <<>>) =>
              Populated(SubSeq(ops[o].file, 1, 1), TRUE)
        /\ (ops[o].kind = "predict" /\ ops[o].pc \in {"predicting", "done"}) =>
              Populated(SubSeq(ops[o].file, 1, 1), FALSE)

----------------------------------------------------------------------------
(* trainRandomForest with buildTree's recursion unfolded.  stack holds the
   calls of buildTree that have not returned, the running one first: a call
   that has just been made ("call"), a call waiting for the node of its left
   or of its right recursive call ("left", "right"), and on top the node
   the call that ran last has returned ("ret"). *)

LiveRuns ==
    {WithTrainer(WithTree(<<"f">>, 2, md), SmallEstimators, SmallChunk) : md \in 1..SmallMaxDepth}
        \X {<<>>, <<RowF(2, 20)>>, <<RowF(1, 10), RowF(2, 20)>>, <<RowF(1, 10), RowF(1, 20)>>,
            Scenario, <<RowF(1, 10), [f |-> 2], [target |-> 20]>>}

InitLive ==
    /\ \E run \in LiveRuns : cfg = run[1] /\ data = run[2]
    /\ pc = "start"
    /\ Idle

Frame(kind, rows, depth, split, node) ==
    [kind |-> kind, rows |-> rows, depth |-> depth, split |-> split, node |-> node]

Called(rows, depth) == Frame("call", rows, depth, NoSplit, Leaf(NaN))
Returns(node) == Frame("ret", <<>>, 0, NoSplit, node)

\* "const sample = bootstrapSample(data)" and the call buildTree(sample, 0).
DrawSample ==
    /\ pc = "building"
    /\ \E s \in bootstrapSamples(data) :
          sample' = s /\ stack' = <<Called(s, 0)>>
    /\ pc' = "recursing"
    /\ UNCHANGED <<cfg, data, tree, trees, i, yields, built, row, result, yTrue, yPred,
                   modelData, returned, store, ops, remote, upload, ui>>
    /\ ran' = ~ran

\* A call of buildTree from its first line: it returns a Leaf, or it finds
\* bestSplit and calls buildTree(bestSplit.left, depth + 1).
Enter ==
    /\ pc = "recursing"
    /\ stack # <<>> /\ Head(stack).kind = "call"
    /\ LET call == Head(stack)
           leaf == Returns(Leaf(Mean(TargetsOf(call.rows))))
       IN  IF StopsAt(cfg, call.rows, call.depth)
           THEN stack' = <<leaf>> \o Tail(stack)
           ELSE \E b \in BestSplits(cfg, call.rows) :
                   stack' =
                      IF b.varianceReduction = NegInfinity
                      THEN <<leaf>> \o Tail(stack)
                      ELSE <<Called(b.left, call.depth + 1),
                             Frame("left", call.rows, call.depth, b, Leaf(NaN))>>
                               \o Tail(stack)
    /\ UNCHANGED <<cfg, pc, data, sample, tree, trees, i, yields, built, row, result, yTrue,
                   yPred, modelData, returned, store, ops, remote, upload, ui>>
    /\ ran' = ~ran

\* A recursive call returns to its caller: after the left one the caller
\* calls buildTree(bestSplit.right, depth + 1), after the right one it
\* returns its Internal node.
Return ==
    /\ pc = "recursing"
    /\ Len(stack) > 1 /\ Head(stack).kind = "ret"
    /\ LET node == stack[1].node
           caller == stack[2]
           rest == SubSeq(stack, 3, Len(stack))
       IN  stack' =
              IF caller.kind = "left"
              THEN <<Called(caller.split.right, caller.depth + 1),
                     Frame("right", caller.rows, caller.depth, caller.split, node)>> \o rest
              ELSE <<Returns(Internal(caller.split.feature, caller.split.threshold,
                                      caller.node, node))>> \o rest
    /\ UNCHANGED <<cfg, pc, data, sample, tree, trees, i, yields, built, row, result, yTrue,
                   yPred, modelData, returned, store, ops, remote, upload, ui>>
    /\ ran' = ~ran

\* buildTree(sample, 0) has returned: trees.push, "j++", and the tests of
\* the inner and the outer loop.
PushTree ==
    /\ pc = "recursing"
    /\ Len(stack) = 1 /\ Head(stack).kind = "ret"
    /\ tree' = stack[1].node
    /\ stack' = <<>>
    /\ trees' = Append(trees, tree')
    /\ built' = built + 1
    /\ IF built' < cfg.chunkSize /\ i + built' < cfg.nEstimators
       THEN pc' = "building" /\ UNCHANGED <<i, result>>
       ELSE /\ i' = i + cfg.chunkSize
            /\ IF i' < cfg.nEstimators
               THEN pc' = "awaiting" /\ UNCHANGED result
               ELSE pc' = "resolved" /\ result' = [trees |-> trees', oobPreds |-> <<>>]
    /\ UNCHANGED <<cfg, data, sample, yields, row, yTrue, yPred, modelData, returned,
                   store, ops, remote, upload, ui>>
    /\ ran' = ~ran

NextLive == Call \/ Yield \/ DrawSample \/ Enter \/ Return \/ PushTree

\* Code of trainRandomForest that stands between two awaits takes its next
\* step: DrawSample, Enter, Return and PushTree are the steps that flip ran,
\* and one of them is possible wherever pc is "building" or "recursing".
RunsOn ==
    /\ pc \in {"building", "recursing"}
    /\ ran' = ~ran

\* The host runs every timer callback it was given, and code that has begun
\* runs on to its next await.
SpecLive ==
    /\ InitLive /\ [][NextLive]_vars
    /\ WF_vars(Yield)
    /\ WF_ran(RunsOn)

\* A call of buildTree made by a call of buildTree.
Descends(parent, child) ==
    /\ Len(child.rows) < Len(parent.rows)
    /\ child.depth = parent.depth + 1

\* C24: every recursive call of buildTree receives strictly fewer rows than
\* its caller and a depth one greater, and, the host running every timer
\* callback, trainRandomForest once called eventually resolves.
C24_RecursionDescendsAndTrainingResolves ==
    /\ []((Len(stack) > 1 /\ Head(stack).kind = "call") => Descends(stack[2], stack[1]))
    /\ (pc # "start") ~> (pc = "resolved")

\* trainRandomForest has resolved after more than one timer callback with a
\* tree whose building took recursive calls.
C24_Witness ==
    /\ pc = "resolved"
    /\ yields > 1
    /\ \E k \in 1..Len(trees) : ~trees[k].isLeaf

\* The unfolded recursion returns what buildTree(sample, 0) returns.
C24_UnfoldedAsBuildTree ==
    (pc = "recursing" /\ Len(stack) = 1 /\ Head(stack).kind = "ret") =>
        stack[1].node \in buildTree(cfg, sample, 0)

\* v lies between the least and the greatest of the numbers ys.
Within(v, ys) ==
    \E lo, hi \in Range(ys) :
        /\ \A y \in Range(ys) : Leq(lo, y) /\ Leq(y, hi)
        /\ Leq(lo, v) /\ Leq(v, hi)

\* Every leaf of the forest, and predictForest's mean, lowerBound and
\* upperBound for every row of the dataset, lie within the targets.
ForestWithinTargets(forest, d) ==
    /\ \A k \in 1..Len(forest) :
          \A v \in Range(LeafValues(forest[k])) : Within(v, TargetsOf(d))
    /\ \A j \in 1..Len(d) :
          \A p \in {predictForest(forest, d[j])} :
             /\ Within(p.mean, TargetsOf(d))
             /\ Within(p.lowerBound, TargetsOf(d))
             /\ Within(p.upperBound, TargetsOf(d))

\* C25: for a forest trained on a non-empty dataset every leaf value lies in
\* [min, max] of the dataset's targets, and so do the mean, the lowerBound
\* and the upperBound predictForest returns.
C25_PredictionsWithinTargetRange ==
    (pc = "resolved" /\ Len(data) >= 1) => ForestWithinTargets(result.trees, data)

\* The same for the datasets whose targets add up without rounding.
C25_PredictionsWithinRangeWhenSumsExact ==
    (pc = "resolved" /\ Len(data) >= 1 /\ data # Thirds) =>
        ForestWithinTargets(result.trees, data)

\* handleTrain's saveData is served for caller o.
SavesData(o) == ops[o].kind = "train" /\ ops[o].pc = "trained" /\ ops'[o].pc = "dataSaved"

\* C26: whatever calls ran between handleTrain's read and its save (a
\* clearModelData or a second handleTrain for the same model type), the
\* dataset it stores is the dataset stored immediately before its save
\* followed by the rows of its own file.
C26_SaveAppendsToStoredDataset ==
    [][\A o \in Callers :
          SavesData(o) =>
              store'.data[ops[o].type] = store.data[ops[o].type] \o ops[o].file]_vars

\* The same for the calls no other call wrote beside.
C26_SaveAppendsWhenUndisturbed ==
    [][\A o \in Callers :
          (SavesData(o) /\ ~ops[o].disturbed) =>
              store'.data[ops[o].type] = store.data[ops[o].type] \o ops[o].file]_vars

----------------------------------------------------------------------------
(* App: the model tabs, the metrics card and the train and clear buttons.
   ui.loads are the getStoredMetrics calls of loadMetrics that have not
   settled, in the order they were made; ui.awaiting tells which of
   handleTrain and clearModelData App awaits and ui.modelType the model type
   it was called with.  The call App awaits is that of
   AppCaller, and its steps are those of handleTrain and clearModelData
   above.  status is left out: it guards no state but the buttons' spinner.
   ui.switches counts the tab switches and ui.lost tells that a load was
   rejected; the code has neither. *)

AppCaller == "first"
AppFiles == {<<>>, <<RowF(2, 20)>>}

\* Tab switches in one run.
MaxSwitches == 2

\* useState's initial values and the first run of the effect on
\* [currentModel]: loadMetrics has called getStoredMetrics.
MountedUi ==
    [mounted |-> TRUE, currentModel |-> "rf_model_online", metrics |-> NoMetrics,
     isInitializing |-> TRUE, loads |-> <<"rf_model_online">>, awaiting |-> "none",
     modelType |-> "rf_model_online", switches |-> 0, lost |-> FALSE]

InitApp ==
    /\ cfg = StoreConfig
    /\ pc = "start"
    /\ data = <<>>
    /\ sample = <<>> /\ tree = Undefined /\ trees = <<>> /\ i = 0 /\ yields = 0
    /\ built = 0 /\ row = Undefined /\ result = Undefined /\ yTrue = <<>> /\ yPred = <<>>
    /\ modelData = Undefined /\ returned = <<>>
    /\ store \in StoresBefore
    /\ ops = NoOps
    /\ remote = NoRemote /\ upload = NoUpload /\ stack = <<>> /\ ran = FALSE
    /\ ui = MountedUi

AppFrame == <<Engine, store, ops, remote, upload, stack, ran>>

\* The promise App awaits has settled and the lines after the await have
\* not run yet: they run before any other task.
Settled == ui.awaiting # "none" /\ ops[AppCaller].pc \in {"done", "failed"}

\* What getStoredMetrics(t) returns.
StoredMetrics(t) == IF IsAbsent(store.model[t]) THEN NoMetrics ELSE store.model[t].metrics

Without(s, k) == SubSeq(s, 1, k - 1) \o SubSeq(s, k + 1, Len(s))

\* A click on another tab: setCurrentModel(type), the render, and the effect
\* up to "await getStoredMetrics(currentModel)".
SwitchTab ==
    /\ ~Settled
    /\ ui.switches < MaxSwitches
    /\ \E t \in ModelTypes \ {ui.currentModel} :
          ui' = [ui EXCEPT !.currentModel = t, !.isInitializing = TRUE,
                           !.loads = Append(ui.loads, t), !.switches = ui.switches + 1]
    /\ UNCHANGED AppFrame

\* A getStoredMetrics call of loadMetrics resolves: setMetrics(m) and, in the
\* finally block, setIsInitializing(false).
LoadResolves ==
    /\ ~Settled
    /\ \E k \in 1..Len(ui.loads) :
          ui' = [ui EXCEPT !.metrics = StoredMetrics(ui.loads[k]), !.isInitializing = FALSE,
                           !.loads = Without(ui.loads, k)]
    /\ UNCHANGED AppFrame

\* It rejects: the catch block logs, the finally block runs.
LoadRejects ==
    /\ ~Settled
    /\ \E k \in 1..Len(ui.loads) :
          ui' = [ui EXCEPT !.isInitializing = FALSE, !.loads = Without(ui.loads, k),
                           !.lost = TRUE]
    /\ UNCHANGED AppFrame

\* A file is chosen with the train button: onTrainFileChange up to
\* "await handleTrain(file, currentModel, ...)".
ClickTrain ==
    /\ ~ui.isInitializing
    /\ ui.awaiting = "none" /\ ops[AppCaller].pc = "idle"
    /\ ui' = [ui EXCEPT !.awaiting = "train", !.modelType = ui.currentModel]
    /\ UNCHANGED AppFrame

\* handleTrain(file, currentModel) as called by onTrainFileChange: readFile
\* resolves and the file is validated.  The model type is the tab selected at
\* the click.
AppStartTrain ==
    /\ ui.awaiting = "train"
    /\ StartTrainOf(AppCaller, {ui.modelType}, AppFiles)

\* The lines after "await handleTrain": setMetrics(newMetrics), or the catch
\* block.
TrainSettles ==
    /\ ui.awaiting = "train" /\ Settled
    /\ ui' = [ui EXCEPT !.awaiting = "none",
                        !.metrics = IF ops[AppCaller].pc = "done"
                                    THEN ops[AppCaller].metrics ELSE ui.metrics]
    /\ UNCHANGED AppFrame

\* The clear button, confirmed: handleClearData up to
\* "await clearModelData(currentModel)".
ClickClear ==
    /\ ~ui.isInitializing /\ ~IsAbsent(ui.metrics)
    /\ ui.awaiting = "none" /\ ops[AppCaller].pc = "idle"
    /\ ui' = [ui EXCEPT !.awaiting = "clear", !.modelType = ui.currentModel]
    /\ UNCHANGED AppFrame

AppStartClear ==
    /\ ui.awaiting = "clear"
    /\ StartClearOf(AppCaller, {ui.modelType})

\* The lines after "await clearModelData": setMetrics(null), or the catch
\* block.
ClearSettles ==
    /\ ui.awaiting = "clear" /\ Settled
    /\ ui' = [ui EXCEPT !.awaiting = "none",
                        !.metrics = IF ops[AppCaller].pc = "done" THEN NoMetrics ELSE ui.metrics]
    /\ UNCHANGED AppFrame

NextApp ==
    \/ SwitchTab \/ LoadResolves \/ LoadRejects
    \/ ClickTrain \/ AppStartTrain \/ TrainSettles
    \/ ClickClear \/ AppStartClear \/ ClearSettles
    \/ GetData(AppCaller) \/ Train(AppCaller) \/ SaveData(AppCaller) \/ SaveModel(AppCaller)
    \/ ClearModel(AppCaller) \/ ClearData(AppCaller) \/ Reject(AppCaller)

SpecApp == InitApp /\ [][NextApp]_vars

\* No load, train or clear is in flight.
AtRest == ui.loads = <<>> /\ ui.awaiting = "none"

\* C27: whenever no load, train or clear is in flight, the metrics App
\* displays are the stored metrics of the selected model type, whatever the
\* interleaving of tab switches, pending loads and a handleTrain that
\* completes after the user switched tabs.
C27_DisplayedMetricsAreStored ==
    AtRest => ui.metrics = StoredMetrics(ui.currentModel)

\* The same for the runs in which no tab was switched and neither a load nor
\* a storage write was rejected.
C27_DisplayedMetricsAreStoredOnOneTab ==
    (AtRest /\ ui.switches = 0 /\ ~ui.lost /\ ops[AppCaller].error # "StorageError") =>
        ui.metrics = StoredMetrics(ui.currentModel)

----------------------------------------------------------------------------
\* Every call has returned or thrown, and none ran beside a call that wrote
\* the keys of its model type: the calls came one after another.
InSequence == \A o \in Callers : ops[o].pc \in {"idle", "done", "failed"} /\ ~ops[o].disturbed

\* The stored model of t and the stored dataset of t agree.
ModelMatchesData(t) ==
    IF IsAbsent(store.model[t]) THEN store.data[t] = <<>>
    ELSE store.model[t].metrics.sampleSize = Len(store.data[t])

\* C28: after any sequence of handleTrain and clearModelData calls that each
\* ran to completion or failed at one of their storage writes, a stored model
\* has metrics.sampleSize equal to the length of the stored dataset of its
\* type, and a type without a stored model has an empty stored dataset.
C28_StoredModelMatchesDataset ==
    InSequence => \A t \in ModelTypes : ModelMatchesData(t)

\* The same after the sequences in which no storage request was rejected.
C28_StoredModelMatchesDatasetWhenNoneRejected ==
    (InSequence /\ \A o \in Callers : ops[o].error # "StorageError") =>
        \A t \in ModelTypes : ModelMatchesData(t)

----------------------------------------------------------------------------
\* The file of a handleTrain or handlePredict call has zero rows, or its first
\* row lacks a column the call requires.
Unacceptable(op) ==
    \/ Len(op.file) = 0
    \/ \E f \in Range(cfg.features) \cup (IF op.kind = "train" THEN {TARGET} ELSE {}) :
          f \notin DOMAIN op.file[1]

\* C29: a handleTrain or handlePredict call whose file has zero rows or whose
\* first row misses a required column is rejected, and it leaves the stored
\* dataset and the stored model of every model type unchanged: the call
\* fails in its first step and no step of it writes.
C29_RejectedCallLeavesStoreUnchanged ==
    [][\A o \in Callers :
          (/\ ops'[o].pc # ops[o].pc
           /\ ops'[o].kind \in {"train", "predict"}
           /\ Unacceptable(ops'[o])) =>
              /\ ops'[o].pc = "failed"
              /\ store'.data = store.data /\ store'.model = store.model]_vars

\* A handleTrain rejected for an empty file and a handlePredict rejected for
\* a first row without the feature, beside a stored model.
C29_Witness ==
    /\ \E o \in Callers :
          ops[o].kind = "train" /\ ops[o].pc = "failed" /\ ops[o].error = "EmptyFile"
    /\ \E o \in Callers :
          ops[o].kind = "predict" /\ ops[o].pc = "failed" /\ ops[o].error = "MissingColumns"
    /\ \E t \in ModelTypes : ~IsAbsent(store.model[t])

====
